---- MODULE Spec2Model ----
(***************************************************************************)
(* Camera acquisition state machines of portrait-mate.                     *)
(*                                                                         *)
(*   poll   : the queue-based polling CameraService (unnamed/part_000,     *)
(*            lines 68-683): startSession / stopSession, a poll timer,     *)
(*            a download queue drained by processDownloadQueue and a       *)
(*            reconnect timer with exponential backoff.                    *)
(*   tether : the tethered-event CameraService (src/services/camera.ts,    *)
(*            lines 473-910): start / stop / pause / resume, one           *)
(*            long-lived listener subprocess and a fixed reconnect delay.  *)
(*   auto   : the auto-detect CameraService (src/services/camera.ts,       *)
(*            lines 34-441): an interval that checks for the camera and,   *)
(*            on connection, downloads the photos taken since the session  *)
(*            start; resetSession moves the session start.                 *)
(*   call   : the method a test driver called last on one of the services, *)
(*            with its arguments and what it returned or published; used   *)
(*            by the specifications that exercise one method on its own.   *)
(*                                                                         *)
(* All run on the single-threaded Node.js event loop.  One action of the  *)
(* model is one run-to-completion slice of JavaScript: from the callback   *)
(* the event loop invokes (a timer, a child-process event, an API call) up *)
(* to the next await on an external event, with every synchronous call it  *)
(* makes on the way.  Each service is one record whose fields carry the    *)
(* names of the class fields; the methods are operators from record to     *)
(* record, composed in the order the code calls them.                      *)
(***************************************************************************)
EXTENDS Integers, Sequences, FiniteSets, TLC

VARIABLES poll, tether, auto, call

vars == <<poll, tether, auto, call>>

\* null for handles, identifiers and paths (numbered from 1); NONE for an
\* absent string
NULL == 0
NONE == "none"

\* enum ConnectionState / CameraConnectionState
DISCONNECTED == "DISCONNECTED"
CONNECTING == "CONNECTING"
CONNECTED == "CONNECTED"
ERROR == "ERROR"

ConnectionStates == {DISCONNECTED, CONNECTING, CONNECTED, ERROR}

Min(a, b) == IF a < b THEN a ELSE b

SetMax(S) == CHOOSE x \in S : \A y \in S : y <= x

SetMin(S) == CHOOSE x \in S : \A y \in S : x <= y

\* the elements of a finite set of integers in ascending order
RECURSIVE SortedSeq(_)
SortedSeq(S) == IF S = {} THEN <<>> ELSE <<SetMin(S)>> \o SortedSeq(S \ {SetMin(S)})

SeqToSet(q) == {q[i] : i \in 1..Len(q)}

\* a history counter with the values 0, 1 and 2 = "more than once"
Bump(c) == IF c = 0 THEN 1 ELSE 2

\* setTimeout: a fresh timer handle, distinct from every pending one
NewTimer(pending) == IF pending = {} THEN 1 ELSE SetMax(pending) + 1

\* an event published on a sink ('camera-status' / 'photo-captured' on
\* socket.io, or 'status' / 'photo' / 'error' on the EventEmitter)
StatusEvent(state) ==
  [type |-> "status", connected |-> (state = CONNECTED), state |-> state, file |-> NULL,
   sid |-> NULL, message |-> NONE, filename |-> <<>>, path |-> <<>>]

PhotoEvent(f, sid) ==
  [type |-> "photo", connected |-> FALSE, state |-> NONE, file |-> f,
   sid |-> sid, message |-> NONE, filename |-> <<>>, path |-> <<>>]

ErrorEvent(msg) ==
  [type |-> "error", connected |-> FALSE, state |-> NONE, file |-> NULL,
   sid |-> NULL, message |-> msg, filename |-> <<>>, path |-> <<>>]

(***************************************************************************)
(* Bounds                                                                  *)
(***************************************************************************)
\* device file identifiers that can appear on the camera
MaxFiles == 2
\* startSession calls in one behaviour
MaxSessions == 1
\* further startSession calls, each after a stopSession, where a
\* specification allows them
MaxRestarts == 1

Files == 1..MaxFiles
SessionIds == 1..MaxSessions

(***************************************************************************)
(* Queue-based polling CameraService (unnamed/part_000)                    *)
(***************************************************************************)
\* private reconnectInterval (config default) and maxReconnectInterval, ms
QReconnectInterval == 5000
QMaxReconnectInterval == 30000
\* reconnectAttempts saturates where the backoff has reached its ceiling
QMaxAttempts == 3

\* the folder that discovery returns on success, /store_00010001/DCIM/100CANON,
\* named by its numeric prefix
CanonFolder == 100

\* the awaits a call chain of the polling service can be suspended at
QTaskKinds == {"startMkdir", "monCheck", "monDiscover", "pollDiscover", "pollList", "pollErrCheck"}

QInitial ==
  [ currentSessionId |-> NULL,
    connectionState |-> DISCONNECTED,
    isShuttingDown |-> FALSE,
    downloadedFiles |-> {},
    downloadQueue |-> <<>>,
    isProcessingQueue |-> FALSE,
    pollTimer |-> NULL,
    reconnectTimer |-> NULL,
    cameraFolderPath |-> NULL,
    reconnectAttempts |-> 0,
    \* event loop: pending timers, suspended call chains, running transfers
    pendingPoll |-> {},
    pendingReconnect |-> {},
    tasks |-> [k \in QTaskKinds |-> 0],
    transfers |-> [f \in Files |-> 0],
    \* the device and the history of the run
    cameraFiles |-> {},
    sessionsStarted |-> 0,
    \* downloadFile calls and 'photo-captured' events per identifier since the
    \* current session started
    downloadCalls |-> [f \in Files |-> 0],
    photoEvents |-> [f \in Files |-> 0],
    gone |-> FALSE,
    \* history: discoverCameraPath has resolved to null in startCameraMonitor
    \* during this session
    discoveryFailed |-> FALSE,
    \* history: the identifiers whose transfer failed in the last step
    failed |-> {},
    \* history: the delay of the reconnect timer armed in the last step (0: no
    \* timer was armed), and the scheduleReconnect calls since startSession
    \* or stopSession was called or the state became CONNECTED, whichever
    \* came last
    reconnectDelay |-> 0,
    scheduled |-> 0,
    out |-> <<>> ]

\* every action starts with an empty record of what the step published
QBegin(s) == [s EXCEPT !.out = <<>>, !.failed = {}, !.reconnectDelay = 0]

QSuspend(s, kind) == [s EXCEPT !.tasks[kind] = @ + 1]

QResume(s, kind) == [QBegin(s) EXCEPT !.tasks[kind] = @ - 1]

QSetConnectionState(s, state) ==
  IF s.connectionState # state
  THEN [s EXCEPT !.connectionState = state,
                 !.out = Append(@, StatusEvent(state)),
                 !.reconnectAttempts = IF state = CONNECTED THEN 0 ELSE @,
                 !.scheduled = IF state = CONNECTED THEN 0 ELSE @]
  ELSE s

QStopAllTimers(s) ==
  [s EXCEPT !.pendingPoll = @ \ {s.pollTimer},
            !.pollTimer = NULL,
            !.pendingReconnect = @ \ {s.reconnectTimer},
            !.reconnectTimer = NULL]

QBackoffTime(attempts) ==
  Min(QReconnectInterval * (2 ^ attempts), QMaxReconnectInterval)

QScheduleReconnect(s) ==
  LET s1 == QStopAllTimers(s)
      id == NewTimer(s1.pendingReconnect)
  IN [s1 EXCEPT !.reconnectAttempts = Min(@ + 1, QMaxAttempts),
                !.reconnectDelay = QBackoffTime(s.reconnectAttempts),
                !.scheduled = Min(@ + 1, QMaxAttempts + 1),
                !.reconnectTimer = id,
                !.pendingReconnect = @ \cup {id}]

QStartPolling(s) ==
  IF s.isShuttingDown \/ s.currentSessionId = NULL
  THEN s
  ELSE LET s1 == QStopAllTimers(s)
           id == NewTimer(s1.pendingPoll)
       IN [s1 EXCEPT !.pollTimer = id, !.pendingPoll = @ \cup {id}]

\* startCameraMonitor up to its first await (checkCameraAvailable)
QStartCameraMonitor(s) ==
  IF s.currentSessionId = NULL
  THEN s
  ELSE QSuspend(QSetConnectionState(s, CONNECTING), "monCheck")

\* startCameraMonitor from "Successfully connected" on
QMonitorConnected(s) == QStartPolling(QSetConnectionState(s, CONNECTED))

\* how one of the three gphoto2 --list-folders steps of discovery ends
StepResults == {"ok", "spawn-error", "exit-code", "no-match"}

\* discoverCameraPath, findDCIMFolder and findCanonFolder: r[k] is how step
\* k ends; a step runs only when the ones before it found their folder,
\* and every failure resolves to null
QDiscoverCameraPath(r) ==
  IF r[1] # "ok" THEN NULL
  ELSE IF r[2] # "ok" THEN NULL
  ELSE IF r[3] # "ok" THEN NULL
  ELSE CanonFolder

\* a startCameraMonitor that gives up when discovery fails
QMonitorDiscovered_NoRetry(s, path) ==
  LET s1 == [s EXCEPT !.cameraFolderPath = path]
  IN IF path = NULL
     THEN QSetConnectionState([s1 EXCEPT !.discoveryFailed = TRUE], ERROR)
     ELSE QMonitorConnected(s1)

\* startCameraMonitor after discoverCameraPath has resolved
QMonitorDiscovered(s, path) ==
  LET s1 == [s EXCEPT !.cameraFolderPath = path]
  IN IF path = NULL
     THEN QScheduleReconnect(QSetConnectionState([s1 EXCEPT !.discoveryFailed = TRUE], ERROR))
     ELSE QMonitorConnected(s1)


\* downloadFile returns at once, without a transfer, in these states
QDownloadSkips(s) == s.currentSessionId = NULL \/ s.cameraFolderPath = NULL

\* the while loop of processDownloadQueue, up to its next suspended await
RECURSIVE QDrainLoop(_)
QDrainLoop(s) ==
  IF Len(s.downloadQueue) > 0 /\ ~s.isShuttingDown
  THEN LET file == Head(s.downloadQueue)
           s1 == [s EXCEPT !.downloadQueue = Tail(@)]
           s2 == IF s1.currentSessionId = NULL
                 THEN s1
                 ELSE [s1 EXCEPT !.downloadCalls[file] = Bump(@)]
       IN IF QDownloadSkips(s2)
          THEN QDrainLoop([s2 EXCEPT !.downloadedFiles = @ \cup {file}])
          ELSE [s2 EXCEPT !.transfers[file] = @ + 1]
  ELSE [s EXCEPT !.isProcessingQueue = FALSE]

QProcessDownloadQueue(s) ==
  IF s.isProcessingQueue \/ Len(s.downloadQueue) = 0
  THEN s
  ELSE QDrainLoop([s EXCEPT !.isProcessingQueue = TRUE])

\* for (const file of newFiles) if (!queue.includes(file)) queue.push(file)
RECURSIVE QEnqueue(_, _)
QEnqueue(queue, newFiles) ==
  IF newFiles = <<>>
  THEN queue
  ELSE QEnqueue(IF Head(newFiles) \in SeqToSet(queue) THEN queue ELSE Append(queue, Head(newFiles)),
                Tail(newFiles))

\* files.filter(file => !downloadedFiles.has(file))
QNewFiles(files, downloaded) == SelectSeq(files, LAMBDA f : f \notin downloaded)

\* checkAndDownloadNewPhotos after listCameraFiles has resolved with files
QHandleListing(s, files) ==
  LET newFiles == QNewFiles(files, s.downloadedFiles)
  IN IF Len(newFiles) > 0
     THEN QProcessDownloadQueue([s EXCEPT !.downloadQueue = QEnqueue(@, newFiles)])
     ELSE s

\* handleCameraError that treats a path-related message like a lost camera
QHandlePathError_Disconnects(s) ==
  QScheduleReconnect(QSetConnectionState([s EXCEPT !.cameraFolderPath = NULL], DISCONNECTED))

\* handleCameraError for a path-related message
QHandlePathError(s) == [s EXCEPT !.cameraFolderPath = NULL]

\* handleCameraError after its checkCameraAvailable has resolved
QHandleErrorChecked(s, stillConnected) ==
  IF ~stillConnected
  THEN [QScheduleReconnect(QSetConnectionState(s, DISCONNECTED)) EXCEPT
          !.gone = (s.currentSessionId # NULL)]
  ELSE s

\* checkAndDownloadNewPhotos up to its first await
QCheckAndDownloadNewPhotos(s) ==
  IF s.currentSessionId = NULL \/ s.connectionState # CONNECTED
  THEN QStartPolling(s)
  ELSE IF s.cameraFolderPath = NULL
       THEN QSuspend(s, "pollDiscover")
       ELSE QSuspend(s, "pollList")

(***************************************************************************)
(* Actions of the polling service                                          *)
(***************************************************************************)
\* startSession(sessionId), suspended at mkdir; one session at a time
QStartSession ==
  /\ poll.currentSessionId = NULL
  /\ poll.sessionsStarted < MaxSessions
  /\ poll' = QSuspend([QBegin(poll) EXCEPT !.currentSessionId = poll.sessionsStarted + 1,
                                           !.sessionsStarted = @ + 1,
                                           !.scheduled = 0,
                                           !.downloadCalls = [f \in Files |-> 0],
                                           !.photoEvents = [f \in Files |-> 0]],
                      "startMkdir")
  /\ UNCHANGED <<tether, auto, call>>

\* startSession(sessionId) for a further session, after stopSession
QStartNextSession ==
  /\ poll.currentSessionId = NULL
  /\ poll.sessionsStarted >= MaxSessions
  /\ poll.sessionsStarted < MaxSessions + MaxRestarts
  /\ poll' = QSuspend([QBegin(poll) EXCEPT !.currentSessionId = poll.sessionsStarted + 1,
                                           !.sessionsStarted = @ + 1,
                                           !.scheduled = 0,
                                           !.downloadCalls = [f \in Files |-> 0],
                                           !.photoEvents = [f \in Files |-> 0]],
                      "startMkdir")
  /\ UNCHANGED <<tether, auto, call>>

QMkdirDone ==
  /\ poll.tasks["startMkdir"] > 0
  /\ poll' = QStartCameraMonitor(QResume(poll, "startMkdir"))
  /\ UNCHANGED <<tether, auto, call>>

QStopSession ==
  /\ poll' = [QStopAllTimers(QBegin(poll)) EXCEPT
                !.currentSessionId = NULL,
                !.connectionState = DISCONNECTED,
                !.isShuttingDown = FALSE,
                !.downloadedFiles = {},
                !.downloadQueue = <<>>,
                !.isProcessingQueue = FALSE,
                !.cameraFolderPath = NULL,
                !.reconnectAttempts = 0,
                !.gone = FALSE,
                !.discoveryFailed = FALSE,
                !.scheduled = 0]
  /\ UNCHANGED <<tether, auto, call>>

\* startCameraMonitor resumes with the result of checkCameraAvailable
QMonitorCheckDone ==
  /\ poll.tasks["monCheck"] > 0
  /\ \E cameraAvailable \in BOOLEAN :
       LET s == QResume(poll, "monCheck")
       IN poll' = IF ~cameraAvailable
                  THEN QScheduleReconnect(QSetConnectionState(s, DISCONNECTED))
                  ELSE IF s.cameraFolderPath = NULL
                       THEN QSuspend(s, "monDiscover")
                       ELSE QMonitorConnected(s)
  /\ UNCHANGED <<tether, auto, call>>

\* startCameraMonitor resumes with the result of discoverCameraPath
QMonitorDiscoverDone ==
  /\ poll.tasks["monDiscover"] > 0
  /\ \E r \in [1..3 -> StepResults] :
       poll' = QMonitorDiscovered(QResume(poll, "monDiscover"), QDiscoverCameraPath(r))
  /\ UNCHANGED <<tether, auto, call>>

\* the reconnect timer's callback
QReconnectFire ==
  /\ \E id \in poll.pendingReconnect :
       LET s == [QBegin(poll) EXCEPT !.pendingReconnect = @ \ {id}]
       IN poll' = IF s.isShuttingDown \/ s.currentSessionId = NULL
                  THEN s
                  ELSE QStartCameraMonitor([s EXCEPT !.gone = FALSE])
  /\ UNCHANGED <<tether, auto, call>>

\* the poll timer's callback, up to the first await of the tick
QPollFire ==
  /\ \E id \in poll.pendingPoll :
       poll' = QCheckAndDownloadNewPhotos([QBegin(poll) EXCEPT !.pendingPoll = @ \ {id}])
  /\ UNCHANGED <<tether, auto, call>>

\* listCameraFiles resumes with the result of discoverCameraPath
QPollDiscoverDone ==
  /\ poll.tasks["pollDiscover"] > 0
  /\ \E r \in [1..3 -> StepResults] :
       LET path == QDiscoverCameraPath(r)
           s == [QResume(poll, "pollDiscover") EXCEPT !.cameraFolderPath = path]
       IN poll' = IF path = NULL
                  THEN QStartPolling(QHandlePathError(s))
                  ELSE QSuspend(s, "pollList")
  /\ UNCHANGED <<tether, auto, call>>

\* gphoto2 --list-files closes: the tick resumes with the listing or an error
QPollListDone ==
  /\ poll.tasks["pollList"] > 0
  /\ LET s == QResume(poll, "pollList")
     IN \/ poll' = QStartPolling(QHandleListing(s, SortedSeq(s.cameraFiles)))
        \/ poll' = QStartPolling(QHandlePathError(s))
        \/ poll' = QSuspend(s, "pollErrCheck")
  /\ UNCHANGED <<tether, auto, call>>

\* handleCameraError resumes with the result of checkCameraAvailable
QPollErrCheckDone ==
  /\ poll.tasks["pollErrCheck"] > 0
  /\ \E stillConnected \in BOOLEAN :
       poll' = QStartPolling(QHandleErrorChecked(QResume(poll, "pollErrCheck"), stillConnected))
  /\ UNCHANGED <<tether, auto, call>>

\* the catch branch of processDownloadQueue: downloadFile rejected
QDownloadFailed(s, file) ==
  [s EXCEPT !.downloadedFiles = @ \cup {file},
            !.failed = {file}]

\* downloadFile resolved: the event was published before resolve()
QDownloadSucceeded(s, file) ==
  [s EXCEPT !.out = Append(@, PhotoEvent(file, s.currentSessionId)),
            !.photoEvents[file] = IF s.currentSessionId = NULL THEN @ ELSE Bump(@),
            !.downloadedFiles = @ \cup {file}]

\* gphoto2 --get-file closes: downloadFile settles and the drain loop goes on
QDownloadDone ==
  /\ \E file \in Files, ok \in BOOLEAN :
       /\ poll.transfers[file] > 0
       /\ LET s == [QBegin(poll) EXCEPT !.transfers[file] = @ - 1]
          IN poll' = QDrainLoop(IF ok THEN QDownloadSucceeded(s, file)
                                      ELSE QDownloadFailed(s, file))
  /\ UNCHANGED <<tether, auto, call>>

\* the photographer releases the shutter: the camera writes the next file
\* (IMG_0001.JPG, IMG_0002.JPG, ...) to the card
QCapture ==
  /\ Cardinality(poll.cameraFiles) < MaxFiles
  /\ poll' = [QBegin(poll) EXCEPT !.cameraFiles = @ \cup {Cardinality(@) + 1}]
  /\ UNCHANGED <<tether, auto, call>>

NextPoll ==
  \/ QStartSession
  \/ QStopSession
  \/ QCapture
  \/ QMkdirDone
  \/ QMonitorCheckDone
  \/ QMonitorDiscoverDone
  \/ QReconnectFire
  \/ QPollFire
  \/ QPollDiscoverDone
  \/ QPollListDone
  \/ QPollErrCheckDone
  \/ QDownloadDone


(***************************************************************************)
(* Tethered-event CameraService (src/services/camera.ts, 473-910)          *)
(***************************************************************************)
\* listener subprocesses (gphoto2 --capture-tethered) spawned in one behaviour
MaxListeners == 3

\* 'Saving file as' lines the listener prints in one behaviour
MaxLines == 2

\* waitForFileAndNotify: maxRetries
TMaxRetries == 10

\* private readonly reconnectInterval, ms
TReconnectInterval == 3000

\* text is a sequence of tokens: a name, "/" or an extension with its dot.
\* What gphoto2 prints after 'Saving file as ' on its capture lines
CaptureLines ==
  { <<"session", "/", "photo_120000", ".jpg">>,
    <<"photos", "/", "a", "/", "IMG_1", ".JPG">>,
    <<"photo_120001", ".jpeg">>,
    <<"session", "/", "IMG_2", ".cr2">>,
    <<".jpg">> }

\* capture lines on which text follows a .jpg / .jpeg
CaptureLinesWithTail ==
  { <<"session", "/", "IMG_3", ".jpg", ".cr2">>,
    <<"photo_120002", ".jpeg", ".tmp">> }

\* the extensions \.jpe?g matches with the i flag
JpgTokens == {".jpg", ".jpeg", ".JPG", ".JPEG"}

\* a child process as the event loop sees it: "running" until 'exit' is
\* emitted, "exited" until 'close' is emitted, then "closed"; listeners is
\* FALSE once removeAllListeners() was called on it; errored once 'error'
\* was emitted
NewProcess == [status |-> "running", listeners |-> TRUE, errored |-> FALSE]

TInitial ==
  [ monitorProcess |-> NULL,
    reconnectTimer |-> NULL,
    killTimer |-> NULL,
    connectionState |-> DISCONNECTED,
    isShuttingDown |-> FALSE,
    isPaused |-> FALSE,
    isChecking |-> FALSE,
    \* event loop: pending reconnect timers, presence checks whose promise is
    \* unsettled, the listener subprocesses spawned so far
    pendingReconnect |-> {},
    checks |-> 0,
    procs |-> <<>>,
    \* the calls of start() and stop(): where each is suspended
    startPc |-> "idle",
    stopPc |-> "idle",
    stopProc |-> NULL,
    stopTimeout |-> FALSE,
    \* capture lines received so far (numbered in order of arrival) and the
    \* waitForFileAndNotify calls in flight, each with its failed accesses
    lines |-> 0,
    waits |-> {},
    \* history: whether the last call of pause() / resume() was pause(), the
    \* lines that arrived between pause() and resume(), the lines a photo
    \* event was published for
    inPause |-> FALSE,
    pausedLines |-> {},
    emittedLines |-> {},
    \* history: the lines a 'Photo file not ready' error was published for
    timedOutLines |-> {},
    \* the delay of the reconnect timer armed last
    reconnectDelay |-> 0,
    \* history: presence checks that resolved to false so far (0, 1, more)
    misses |-> 0,
    \* history of the last step
    skipped |-> FALSE,
    out |-> <<>> ]

TBegin(s) == [s EXCEPT !.out = <<>>, !.skipped = FALSE]

TEmit(s, e) == [s EXCEPT !.out = Append(@, e)]

TSetConnectionState_AlwaysEmits(s, state) ==
  TEmit([s EXCEPT !.connectionState = state], StatusEvent(state))

TSetConnectionState(s, state) ==
  IF s.connectionState # state
  THEN TEmit([s EXCEPT !.connectionState = state], StatusEvent(state))
  ELSE s

TStopAllTimers(s) ==
  [s EXCEPT !.pendingReconnect = @ \ {s.reconnectTimer},
            !.reconnectTimer = NULL,
            !.killTimer = NULL]

\* scheduleReconnect without the stopAllTimers() call that precedes setTimeout
TScheduleReconnect_KeepsTimers(s) ==
  LET id == NewTimer(s.pendingReconnect)
  IN [s EXCEPT !.reconnectTimer = id, !.pendingReconnect = @ \cup {id},
               !.reconnectDelay = TReconnectInterval]

TScheduleReconnect(s) ==
  LET s1 == TStopAllTimers(s)
      id == NewTimer(s1.pendingReconnect)
  IN [s1 EXCEPT !.reconnectTimer = id, !.pendingReconnect = @ \cup {id},
                !.reconnectDelay = TReconnectInterval]

\* startEventMonitor: replace the listener subprocess, then CONNECTED
TStartEventMonitor(s) ==
  LET old == s.monitorProcess
      s1 == IF old # NULL
            THEN [s EXCEPT !.procs[old].listeners = FALSE, !.monitorProcess = NULL]
            ELSE s
      s2 == [s1 EXCEPT !.procs = Append(@, NewProcess),
                       !.monitorProcess = Len(s1.procs) + 1]
  IN TSetConnectionState(s2, CONNECTED)

\* a startCameraMonitor that enters CONNECTING before it looks at the result
\* of the presence check
TMonitorChecked_ConnectingFirst(s, cameraAvailable) ==
  LET s1 == TSetConnectionState(s, CONNECTING)
  IN IF ~cameraAvailable
     THEN TScheduleReconnect(TSetConnectionState([s1 EXCEPT !.misses = Bump(@)], DISCONNECTED))
     ELSE TStartEventMonitor(s1)

\* startCameraMonitor after checkCameraAvailable has resolved
TMonitorChecked(s, cameraAvailable) ==
  IF ~cameraAvailable
  THEN TScheduleReconnect(IF s.connectionState # DISCONNECTED
                          THEN TSetConnectionState([s EXCEPT !.misses = Bump(@)], DISCONNECTED)
                          ELSE [s EXCEPT !.misses = Bump(@)])
  ELSE TStartEventMonitor(TSetConnectionState(s, CONNECTING))

\* checkCameraAvailable without the isChecking test
TCheckSkips_Never(s) == FALSE

\* checkCameraAvailable: "Prevent concurrent checks"
TCheckSkips(s) == s.isChecking

\* startCameraMonitor up to the await of checkCameraAvailable: a check that
\* is skipped resolves to false at once, another spawns gphoto2 --summary
\* and suspends
TStartCameraMonitor(s) ==
  IF TCheckSkips(s)
  THEN TMonitorChecked([s EXCEPT !.skipped = TRUE], FALSE)
  ELSE [s EXCEPT !.isChecking = TRUE, !.checks = @ + 1]

\* stop() from the end of its wait on
TStopFinish(s) ==
  TEmit([s EXCEPT !.connectionState = DISCONNECTED, !.stopPc = "done"],
        StatusEvent(DISCONNECTED))

\* a 'close' handler that does not look at isShuttingDown
TOnClose_IgnoresShutdown(s) ==
  TScheduleReconnect(TSetConnectionState([s EXCEPT !.monitorProcess = NULL], DISCONNECTED))

\* the 'close' handler of a listener subprocess
TOnClose(s) ==
  LET s1 == [s EXCEPT !.monitorProcess = NULL]
  IN IF ~s1.isShuttingDown
     THEN TScheduleReconnect(TSetConnectionState(s1, DISCONNECTED))
     ELSE s1

\* an 'error' handler that does not schedule a reconnect
TOnError_NoReconnect(s) ==
  LET s1 == [s EXCEPT !.monitorProcess = NULL]
  IN IF ~s1.isShuttingDown THEN TSetConnectionState(s1, ERROR) ELSE s1

\* the 'error' handler of a listener subprocess
TOnError(s) ==
  LET s1 == [s EXCEPT !.monitorProcess = NULL]
  IN IF ~s1.isShuttingDown
     THEN TScheduleReconnect(TSetConnectionState(s1, ERROR))
     ELSE s1

\* the 'exit' listener that stop() registered, and the continuation of stop()
TOnExitDuringStop(s) ==
  LET s1 == [s EXCEPT !.stopTimeout = FALSE]
  IN IF s1.stopPc = "waiting"
     THEN TStopFinish([s1 EXCEPT !.monitorProcess = NULL])
     ELSE s1

\* line.match(/Saving file as (.+\.jpe?g)/i)[1]: the greedy .+ takes at
\* least one character and the match ends with the last .jpg / .jpeg of
\* the line; the empty text when nothing matches
TSavingFileMatch(line) ==
  LET ends == {k \in 2..Len(line) : line[k] \in JpgTokens}
  IN IF ends = {} THEN <<>> ELSE SubSeq(line, 1, SetMax(ends))

\* a filename that is the whole path
TFileName_KeepsDirectory(fullPath) == fullPath

\* fullPath.split('/').pop()
TFileName(fullPath) ==
  LET slashes == {k \in 1..Len(fullPath) : fullPath[k] = "/"}
  IN IF slashes = {}
     THEN fullPath
     ELSE SubSeq(fullPath, SetMax(slashes) + 1, Len(fullPath))

\* /\.jpe?g$/i.test(filename)
TIsJpgName(filename) == filename # <<>> /\ filename[Len(filename)] \in JpgTokens

\* `/photos/${filename}`
TPhotoPath(filename) == <<"/", "photos", "/">> \o filename

\* the 'photo' event {filename, path} for capture line id
TPhotoEvent(id, filename, photoPath) ==
  [PhotoEvent(id, NULL) EXCEPT !.filename = filename, !.path = photoPath]

\* the 'error' event {message: `Photo file not ready: ${filename}`}
TNotReadyEvent(filename) ==
  [ErrorEvent("Photo file not ready: ") EXCEPT !.filename = filename]

\* parsePhotoEvent without the isPaused test
TParsePhotoEvent_IgnoresPause(s, id, line) ==
  LET fullPath == TSavingFileMatch(line)
      filename == TFileName(fullPath)
  IN IF fullPath # <<>> /\ TIsJpgName(filename)
     THEN [s EXCEPT !.waits = @ \cup {[id |-> id, tries |-> 0, line |-> line,
                                       filename |-> filename]}]
     ELSE s

\* parsePhotoEvent for capture line number id; it ends by calling
\* waitForFileAndNotify, which suspends at its first access(fullPath)
TParsePhotoEvent(s, id, line) ==
  LET fullPath == TSavingFileMatch(line)
      filename == TFileName(fullPath)
  IN IF s.isPaused
     THEN s
     ELSE IF fullPath = <<>>
          THEN s
          ELSE IF ~TIsJpgName(filename)
               THEN s
               ELSE [s EXCEPT !.waits = @ \cup {[id |-> id, tries |-> 0, line |-> line,
                                                 filename |-> filename]}]

\* a pause() that also reports the camera as disconnected
TPause_Disconnects(s) ==
  TSetConnectionState([s EXCEPT !.isPaused = TRUE], DISCONNECTED)

TPause(s) == [s EXCEPT !.isPaused = TRUE]

TResume(s) == [s EXCEPT !.isPaused = FALSE]

\* waitForFileAndNotify that returns without an event after the last retry
TWaitForFileAndNotify_GivesUpSilently(s, w, accessible) ==
  LET s1 == [s EXCEPT !.waits = @ \ {w}]
  IN IF accessible
     THEN TEmit([s1 EXCEPT !.emittedLines = @ \cup {w.id}],
                TPhotoEvent(w.id, w.filename, TPhotoPath(w.filename)))
     ELSE IF w.tries + 1 < TMaxRetries
          THEN [s1 EXCEPT !.waits = @ \cup {[w EXCEPT !.tries = @ + 1]}]
          ELSE s1

\* waitForFileAndNotify resumes after access(fullPath) has settled
TWaitForFileAndNotify(s, w, accessible) ==
  LET s1 == [s EXCEPT !.waits = @ \ {w}]
  IN IF accessible
     THEN TEmit([s1 EXCEPT !.emittedLines = @ \cup {w.id}],
                TPhotoEvent(w.id, w.filename, TPhotoPath(w.filename)))
     ELSE IF w.tries + 1 < TMaxRetries
          THEN [s1 EXCEPT !.waits = @ \cup {[w EXCEPT !.tries = @ + 1]}]
          ELSE TEmit([s1 EXCEPT !.timedOutLines = @ \cup {w.id}],
                     TNotReadyEvent(w.filename))

(***************************************************************************)
(* Actions of the tethered-event service                                   *)
(***************************************************************************)
\* start(), suspended at mkdir; the server calls it once
TStart ==
  /\ tether.startPc = "idle"
  /\ tether.stopPc = "idle"
  /\ tether' = [TBegin(tether) EXCEPT !.startPc = "mkdir"]
  /\ UNCHANGED <<poll, auto, call>>

TMkdirDone ==
  /\ tether.startPc = "mkdir"
  /\ tether' = TStartCameraMonitor([TBegin(tether) EXCEPT !.startPc = "running"])
  /\ UNCHANGED <<poll, auto, call>>

\* gphoto2 --summary closes, fails to spawn or runs into the 5 s timeout
TCheckDone ==
  /\ tether.checks > 0
  /\ \E outcome \in {"close-ok", "close-fail", "error", "timeout"} :
       /\ outcome = "close-ok" => Len(tether.procs) < MaxListeners
       /\ tether' = TMonitorChecked([TBegin(tether) EXCEPT !.checks = @ - 1,
                                                          !.isChecking = FALSE],
                                    outcome = "close-ok")
  /\ UNCHANGED <<poll, auto, call>>

\* the reconnect timer's callback
TReconnectFire ==
  /\ \E id \in tether.pendingReconnect :
       LET s == [TBegin(tether) EXCEPT !.pendingReconnect = @ \ {id}]
       IN tether' = IF s.isShuttingDown THEN s ELSE TStartCameraMonitor(s)
  /\ UNCHANGED <<poll, auto, call>>

\* a listener subprocess terminates: 'exit' is emitted
TListenerExit ==
  /\ \E p \in 1..Len(tether.procs) :
       /\ tether.procs[p].status = "running"
       /\ LET s == [TBegin(tether) EXCEPT !.procs[p].status = "exited"]
          IN tether' = IF s.stopProc = p /\ s.procs[p].listeners
                       THEN TOnExitDuringStop(s)
                       ELSE s
  /\ UNCHANGED <<poll, auto, call>>

\* the stdio streams of an exited (or never spawned) listener are closed:
\* 'close' is emitted
TListenerClose ==
  /\ \E p \in 1..Len(tether.procs) :
       /\ \/ tether.procs[p].status = "exited"
          \/ tether.procs[p].status = "running" /\ tether.procs[p].errored
       /\ LET s == [TBegin(tether) EXCEPT !.procs[p].status = "closed"]
          IN tether' = IF s.procs[p].listeners THEN TOnClose(s) ELSE s
  /\ UNCHANGED <<poll, auto, call>>

\* a listener subprocess could not be spawned or signalled: 'error' is emitted
TListenerError ==
  /\ \E p \in 1..Len(tether.procs) :
       /\ tether.procs[p].status = "running"
       /\ ~tether.procs[p].errored
       /\ LET s == [TBegin(tether) EXCEPT !.procs[p].errored = TRUE]
          IN tether' = IF s.procs[p].listeners THEN TOnError(s) ELSE s
  /\ UNCHANGED <<poll, auto, call>>

\* stop(), up to its wait for the listener's exit; the server calls it once
TStop ==
  /\ tether.stopPc = "idle"
  /\ LET s == TStopAllTimers([TBegin(tether) EXCEPT !.isShuttingDown = TRUE])
     IN tether' = IF s.monitorProcess # NULL
                  THEN [s EXCEPT !.stopPc = "waiting",
                                 !.stopProc = s.monitorProcess,
                                 !.stopTimeout = TRUE]
                  ELSE TStopFinish(s)
  /\ UNCHANGED <<poll, auto, call>>

\* the 5 s timeout inside stop()
TStopTimeoutFire ==
  /\ tether.stopTimeout
  /\ LET s == [TBegin(tether) EXCEPT !.stopTimeout = FALSE]
     IN tether' = IF s.monitorProcess # NULL /\ s.stopPc = "waiting"
                  THEN TStopFinish([s EXCEPT !.monitorProcess = NULL])
                  ELSE s
  /\ UNCHANGED <<poll, auto, call>>

\* a listener subprocess prints 'Saving file as <path>' on stdout
TCaptureLine ==
  /\ tether.lines < MaxLines
  /\ \E p \in 1..Len(tether.procs) : tether.procs[p].status # "closed"
  /\ \E line \in CaptureLines :
       LET id == tether.lines + 1
           s == [TBegin(tether) EXCEPT
                   !.lines = id,
                   !.pausedLines = IF tether.inPause THEN @ \cup {id} ELSE @]
       IN tether' = TParsePhotoEvent(s, id, line)
  /\ UNCHANGED <<poll, auto, call>>

\* a listener subprocess prints 'Saving file as <path>' with a path that
\* goes on after a .jpg / .jpeg
TCaptureLineWithTail ==
  /\ tether.lines < MaxLines
  /\ \E p \in 1..Len(tether.procs) : tether.procs[p].status # "closed"
  /\ \E line \in CaptureLinesWithTail :
       LET id == tether.lines + 1
           s == [TBegin(tether) EXCEPT
                   !.lines = id,
                   !.pausedLines = IF tether.inPause THEN @ \cup {id} ELSE @]
       IN tether' = TParsePhotoEvent(s, id, line)
  /\ UNCHANGED <<poll, auto, call>>

\* access(fullPath) settles, or the 100 ms retry delay after a failure is over
TAccessDone ==
  /\ \E w \in tether.waits, accessible \in BOOLEAN :
       tether' = TWaitForFileAndNotify(TBegin(tether), w, accessible)
  /\ UNCHANGED <<poll, auto, call>>

\* the server calls pause() (before it deletes the photo files of a reset)
TCallPause ==
  /\ tether' = TPause([TBegin(tether) EXCEPT !.inPause = TRUE])
  /\ UNCHANGED <<poll, auto, call>>

\* the server calls resume()
TCallResume ==
  /\ tether' = TResume([TBegin(tether) EXCEPT !.inPause = FALSE])
  /\ UNCHANGED <<poll, auto, call>>

NextTether ==
  \/ TStart
  \/ TStop
  \/ TMkdirDone
  \/ TCheckDone
  \/ TReconnectFire
  \/ TListenerExit
  \/ TListenerClose
  \/ TListenerError
  \/ TStopTimeoutFire

(***************************************************************************)
(* The auto-detect CameraService (src/services/camera.ts, lines 34-441)    *)
(***************************************************************************)
\* bounds of the environment of the auto-detect service
MaxShots == 2
MaxDrift == 1
MaxResets == 1

MAX_SCAN_DEPTH == 50

Shots == 1..MaxShots

\* the verdict of the last step of findFirstNewPhotoIndex: the index it
\* looked at, whether that file had been downloaded before the last
\* resetSession, whether --show-info could be read, and whether the
\* corrected time was earlier than the session start
NoScan == [idx |-> 0, again |-> FALSE, read |-> FALSE, earlier |-> FALSE, verdict |-> NONE]

\* fields of the class, then the environment (system clock, camera, photos
\* directory), then the position of the interval callback, of start() and
\* of the reset handler, then history
AInitial ==
  [ connectionState |-> DISCONNECTED,
    isShuttingDown |-> FALSE,
    isBusy |-> FALSE,
    pollInterval |-> NULL,
    sessionStartTime |-> 0,
    clockDrift |-> 0,
    now |-> 0,
    cameraAhead |-> 0,
    plugged |-> FALSE,
    card |-> <<>>,
    disk |-> {},
    startPc |-> "idle",
    checks |-> 0,
    pc |-> "idle",
    total |-> 0,
    scanIdx |-> 0,
    dlNext |-> 0,
    resetPc |-> "idle",
    resetSnapshot |-> {},
    resets |-> 0,
    emittedEver |-> {},
    beforeReset |-> {},
    syncEmitted |-> {},
    lastScan |-> NoScan,
    out |-> <<>> ]

ABegin(s) == [s EXCEPT !.out = <<>>]

ASetConnectionState(s, state) ==
  IF s.connectionState # state
  THEN [s EXCEPT !.connectionState = state, !.out = Append(@, StatusEvent(state))]
  ELSE s

\* new Date(): the system clock, which has moved on since the last reading
ANow(s) == s.now + 1

\* resetSession: the session start becomes the present
AResetSession(s) ==
  [s EXCEPT !.sessionStartTime = ANow(s),
            !.now = ANow(s),
            !.beforeReset = s.emittedEver,
            !.resets = @ + 1]

AStartPolling(s) ==
  IF s.pollInterval # NULL THEN s ELSE [s EXCEPT !.pollInterval = 1]

\* handleConnection up to its first await
AHandleConnection(s) ==
  [ASetConnectionState(s, CONNECTED) EXCEPT
     !.isBusy = TRUE, !.pc = "drift", !.syncEmitted = {}, !.lastScan = NoScan]

AHandleDisconnection(s) == ASetConnectionState(s, DISCONNECTED)

\* the finally block of handleConnection
AFinishSync(s) ==
  [s EXCEPT !.isBusy = FALSE, !.pc = "idle", !.total = 0, !.scanIdx = 0, !.dlNext = 0]

\* getFileInfo: the camera stamps a file with its own clock, which is
\* cameraAhead in front of the system clock; the service subtracts the
\* drift it measured
ACorrectedTime(s, i) == (s.card[i] + s.cameraAhead) - s.clockDrift

AStopIndex(totalFiles) ==
  IF totalFiles - MAX_SCAN_DEPTH > 1 THEN totalFiles - MAX_SCAN_DEPTH ELSE 1

\* syncNewPhotos after findFirstNewPhotoIndex returned
AAfterScan(s, firstNewIndex) ==
  IF firstNewIndex = NULL
  THEN AFinishSync(s)
  ELSE [s EXCEPT !.pc = "download", !.dlNext = firstNewIndex]

\* findFirstNewPhotoIndex: file i is older than the session start, or is in
\* the photos directory
AFoundOld(s, i) ==
  AAfterScan(s, IF i = s.total THEN NULL ELSE i + 1)

\* findFirstNewPhotoIndex: next iteration of the backward scan
AScanContinue(s, i) ==
  IF i - 1 >= AStopIndex(s.total)
  THEN [s EXCEPT !.scanIdx = i - 1, !.pc = "scan"]
  ELSE AAfterScan(s, AStopIndex(s.total))

AIsOld_ComparesNothing(s, t) == FALSE

\* Check 1 of findFirstNewPhotoIndex
AIsOld(s, t) == t < s.sessionStartTime

\* the loop body of findFirstNewPhotoIndex once getFileInfo(i) has settled
AInfoRead(s, i, read) ==
  IF ~read
  THEN AScanContinue([s EXCEPT !.lastScan =
         [idx |-> i, again |-> i \in s.beforeReset, read |-> FALSE,
          earlier |-> FALSE, verdict |-> "noinfo"]], i)
  ELSE IF AIsOld(s, ACorrectedTime(s, i))
  THEN AFoundOld([s EXCEPT !.lastScan =
         [idx |-> i, again |-> i \in s.beforeReset, read |-> TRUE,
          earlier |-> ACorrectedTime(s, i) < s.sessionStartTime, verdict |-> "old"]], i)
  ELSE [s EXCEPT !.pc = "exists", !.lastScan =
         [idx |-> i, again |-> i \in s.beforeReset, read |-> TRUE,
          earlier |-> ACorrectedTime(s, i) < s.sessionStartTime, verdict |-> "checking"]]

\* the loop body of findFirstNewPhotoIndex once checkFileExists has settled
AExistsChecked(s, i) ==
  IF i \in s.disk
  THEN AFoundOld([s EXCEPT !.lastScan.verdict = "exists"], i)
  ELSE AScanContinue([s EXCEPT !.lastScan.verdict = "new"], i)

\* parseDownloadEvent for the 'Saving file as' line of file i
AParseDownloadEvent(s, i) ==
  [s EXCEPT !.out = Append(@, PhotoEvent(i, NULL)),
            !.emittedEver = @ \cup {i},
            !.syncEmitted = @ \cup {i}]

\* ---- actions ----

AStart ==
  /\ auto.startPc = "idle"
  /\ auto' = [ABegin(auto) EXCEPT !.startPc = "mkdir"]
  /\ UNCHANGED <<poll, tether, call>>

AStartMkdirDone ==
  /\ auto.startPc = "mkdir"
  /\ auto' = AStartPolling([ABegin(auto) EXCEPT !.startPc = "done"])
  /\ UNCHANGED <<poll, tether, call>>

\* the setInterval callback up to its await; gphoto2 --auto-detect settles
\* within the 2 s interval, so one check is in flight at a time
AIntervalFire ==
  /\ auto.pollInterval # NULL
  /\ IF auto.isShuttingDown \/ auto.isBusy
     THEN auto' = ABegin(auto)
     ELSE /\ auto.checks = 0
          /\ auto' = [ABegin(auto) EXCEPT !.checks = 1]
  /\ UNCHANGED <<poll, tether, call>>

\* the setInterval callback when gphoto2 --auto-detect of the previous tick
\* has not settled within the 2 s interval: a second check is started
AIntervalOverlap ==
  /\ auto.pollInterval # NULL
  /\ ~(auto.isShuttingDown \/ auto.isBusy)
  /\ auto.checks = 1
  /\ auto' = [ABegin(auto) EXCEPT !.checks = 2]
  /\ UNCHANGED <<poll, tether, call>>

\* checkCameraConnected settles and the interval callback goes on
ACheckConnectedDone ==
  /\ auto.checks > 0
  /\ \E connected \in {auto.plugged, FALSE} :
       LET s == [ABegin(auto) EXCEPT !.checks = @ - 1] IN
       auto' = IF connected
               THEN IF s.connectionState # CONNECTED THEN AHandleConnection(s) ELSE s
               ELSE IF s.connectionState = CONNECTED THEN AHandleDisconnection(s) ELSE s
  /\ UNCHANGED <<poll, tether, call>>

\* calculateClockDrift settles (measured, or given up with 0) and
\* syncNewPhotos asks for the number of files
ADriftDone ==
  /\ auto.pc = "drift"
  /\ \E measured \in {auto.plugged, FALSE} :
       auto' = [ABegin(auto) EXCEPT
                  !.clockDrift = IF measured THEN auto.cameraAhead ELSE 0,
                  !.pc = "count"]
  /\ UNCHANGED <<poll, tether, call>>

\* getTotalFiles settles
ACountDone ==
  /\ auto.pc = "count"
  /\ \E listed \in {auto.plugged, FALSE} :
       LET totalFiles == IF listed THEN Len(auto.card) ELSE 0 IN
       auto' = IF totalFiles = 0
               THEN AFinishSync(ABegin(auto))
               ELSE [ABegin(auto) EXCEPT !.total = totalFiles, !.scanIdx = totalFiles,
                                         !.pc = "scan"]
  /\ UNCHANGED <<poll, tether, call>>

\* getFileInfo(i) settles
AInfoDone ==
  /\ auto.pc = "scan"
  /\ \E read \in {auto.plugged, FALSE} :
       auto' = AInfoRead(ABegin(auto), auto.scanIdx, read)
  /\ UNCHANGED <<poll, tether, call>>

\* checkFileExists settles
AExistsDone ==
  /\ auto.pc = "exists"
  /\ auto' = AExistsChecked(ABegin(auto), auto.scanIdx)
  /\ UNCHANGED <<poll, tether, call>>

\* gphoto2 --get-file writes the next file of the range and prints its
\* 'Saving file as' line
ADownloadLine ==
  /\ auto.pc = "download"
  /\ auto.plugged
  /\ auto.dlNext <= auto.total
  /\ auto' = AParseDownloadEvent(
               [ABegin(auto) EXCEPT !.disk = @ \cup {auto.dlNext}, !.dlNext = @ + 1],
               auto.dlNext)
  /\ UNCHANGED <<poll, tether, call>>

\* the download process closes: code 0 after the whole range, or a failure
ADownloadClose ==
  /\ auto.pc = "download"
  /\ \E code \in {0, 1} :
       /\ code = 0 => auto.dlNext > auto.total
       /\ code = 1 => auto.dlNext <= auto.total
       /\ auto' = IF code = 0
                  THEN AFinishSync(ABegin(auto))
                  ELSE AFinishSync([ABegin(auto) EXCEPT
                         !.out = <<ErrorEvent("Failed to sync photos")>>])
  /\ UNCHANGED <<poll, tether, call>>

\* SocketController.handleResetSession up to readdir
AResetRequest ==
  /\ auto.resetPc = "idle"
  /\ auto.resets < MaxResets
  /\ auto' = [ABegin(auto) EXCEPT !.resetPc = "readdir"]
  /\ UNCHANGED <<poll, tether, call>>

AResetReaddirDone ==
  /\ auto.resetPc = "readdir"
  /\ auto' = [ABegin(auto) EXCEPT !.resetPc = "unlink", !.resetSnapshot = auto.disk]
  /\ UNCHANGED <<poll, tether, call>>

\* the unlinks settle; resume() and resetSession() follow
AResetUnlinkDone ==
  /\ auto.resetPc = "unlink"
  /\ auto' = AResetSession([ABegin(auto) EXCEPT
                              !.disk = @ \ auto.resetSnapshot,
                              !.resetSnapshot = {},
                              !.resetPc = "idle"])
  /\ UNCHANGED <<poll, tether, call>>

\* ---- environment ----

APlug ==
  /\ ~auto.plugged
  /\ auto' = [ABegin(auto) EXCEPT !.plugged = TRUE]
  /\ UNCHANGED <<poll, tether, call>>

AUnplug ==
  /\ auto.plugged
  /\ auto' = [ABegin(auto) EXCEPT !.plugged = FALSE]
  /\ UNCHANGED <<poll, tether, call>>

\* the camera clock is set before the first shot
ACameraClock ==
  /\ auto.card = <<>>
  /\ auto.cameraAhead = 0
  /\ \E d \in 1..MaxDrift : auto' = [ABegin(auto) EXCEPT !.cameraAhead = d]
  /\ UNCHANGED <<poll, tether, call>>

AShoot ==
  /\ Len(auto.card) < MaxShots
  /\ auto' = [ABegin(auto) EXCEPT !.card = Append(@, ANow(auto)), !.now = ANow(auto)]
  /\ UNCHANGED <<poll, tether, call>>

NextAuto ==
  \/ AStart
  \/ AStartMkdirDone
  \/ AIntervalFire
  \/ ACheckConnectedDone
  \/ ADriftDone
  \/ ACountDone
  \/ AInfoDone
  \/ AExistsDone
  \/ ADownloadLine
  \/ ADownloadClose
  \/ AResetRequest
  \/ AResetReaddirDone
  \/ AResetUnlinkDone
  \/ APlug
  \/ AUnplug
  \/ ACameraClock
  \/ AShoot

(***************************************************************************)
(* Single methods, called by a driver                                      *)
(***************************************************************************)
MaxCalls == 3

NoCall == [fn |-> NONE]

\* the run of consecutive setConnectionState(value) calls on one service:
\* the state before its first call, its length, and the status events
\* published by its first call and by its later calls
SetStateRun(svc, before, value, published) ==
  IF call.fn = "setConnectionState" /\ call.svc = svc /\ call.value = value
  THEN [call EXCEPT !.run = @ + 1, !.later = @ + published]
  ELSE [fn |-> "setConnectionState", svc |-> svc, value |-> value, before |-> before,
        run |-> 1, first |-> published, later |-> 0]

SetStateRunOpen(svc, value) ==
  (call.fn = "setConnectionState" /\ call.svc = svc /\ call.value = value)
    => call.run < MaxCalls

QCallSetConnectionState ==
  /\ \E state \in ConnectionStates :
       /\ SetStateRunOpen("poll", state)
       /\ poll' = QSetConnectionState(QBegin(poll), state)
       /\ call' = SetStateRun("poll", poll.connectionState, state, Len(poll'.out))
  /\ UNCHANGED <<tether, auto>>

TCallSetConnectionState ==
  /\ \E state \in ConnectionStates :
       /\ SetStateRunOpen("tether", state)
       /\ tether' = TSetConnectionState(TBegin(tether), state)
       /\ call' = SetStateRun("tether", tether.connectionState, state, Len(tether'.out))
  /\ UNCHANGED <<poll, auto>>

NextSetState ==
  \/ QCallSetConnectionState
  \/ TCallSetConnectionState

\* milliseconds of the system clock between two consecutive downloadFile
\* calls of the drain loop
ClockSteps == {0, 400, 1000, 60000, 86400000}

\* new Date().toTimeString().split(' ')[0].replace(/:/g, ''): the hour,
\* minute and second of the day
QTimeString(ms) ==
  LET s == (ms \div 1000) % 86400
  IN <<s \div 3600, (s \div 60) % 60, s % 60>>

\* join(sessionDir, `photo_${timestamp}.jpg`)
QLocalPath(sessionId, ms) == [sessionDir |-> sessionId, timestamp |-> QTimeString(ms)]

\* the drain loop of one session calls downloadFile for the next identifier
QCallDownloadFile ==
  /\ call.fn \in {NONE, "downloadFile"}
  /\ \E dt \in ClockSteps :
       LET saved == IF call.fn = NONE THEN <<>> ELSE call.saved
           now == (IF call.fn = NONE THEN 0 ELSE call.now) + dt
       IN /\ Len(saved) < MaxCalls
          /\ call' = [fn |-> "downloadFile", now |-> now,
                      saved |-> Append(saved, [file |-> Len(saved) + 1,
                                               localPath |-> QLocalPath(1, now)])]
  /\ UNCHANGED <<poll, tether, auto>>

NextFilenames ==
  \/ QCallDownloadFile

\* one checkCameraAvailable call of the tethered-event service that spawns
\* gphoto2 --summary: the promise executor has run. resolves holds the
\* arguments of the resolve() calls made so far, pending tells whether the
\* awaiting caller is still suspended, returned lists what the calls before
\* this one returned
TCheckSpawned(returned) ==
  [fn |-> "checkCameraAvailable", returned |-> returned, isChecking |-> TRUE, pending |-> TRUE,
   resolved |-> FALSE, timeout |-> TRUE, killed |-> FALSE, output |-> FALSE,
   status |-> "running", errored |-> FALSE, resolves |-> <<>>, cause |-> NONE,
   code |-> NONE]

\* resolve(value): the first call settles the promise, and the finally block
\* of checkCameraAvailable runs when the caller resumes
TCheckResolve(c, value, cause) ==
  [c EXCEPT !.resolves = Append(@, value), !.cause = cause, !.pending = FALSE,
            !.isChecking = FALSE]

\* a timeout callback that only kills the process
TCheckOnTimeout_KillsOnly(c) ==
  LET c1 == [c EXCEPT !.timeout = FALSE]
  IN IF ~c1.resolved /\ ~c1.killed
     THEN [c1 EXCEPT !.killed = TRUE]
     ELSE c1

\* the 5 s timeout callback
TCheckOnTimeout(c) ==
  LET c1 == [c EXCEPT !.timeout = FALSE]
  IN IF ~c1.resolved /\ ~c1.killed
     THEN TCheckResolve([c1 EXCEPT !.resolved = TRUE, !.killed = TRUE], FALSE, "timeout")
     ELSE c1

\* detect.on('close', code)
TCheckOnClose(c, code) ==
  LET c1 == [c EXCEPT !.status = "closed", !.code = code]
  IN IF ~c1.resolved
     THEN TCheckResolve([c1 EXCEPT !.resolved = TRUE, !.timeout = FALSE],
                        code = "0" /\ c1.output, "close")
     ELSE c1

\* detect.on('error', err)
TCheckOnError(c) ==
  LET c1 == [c EXCEPT !.errored = TRUE]
  IN IF ~c1.resolved
     THEN TCheckResolve([c1 EXCEPT !.resolved = TRUE, !.timeout = FALSE], FALSE, "error")
     ELSE c1

\* the caller's checkCameraAvailable call, once the process of the call
\* before it is gone
TCheckCall ==
  /\ \/ call.fn = NONE
     \/ /\ call.fn = "checkCameraAvailable"
        /\ ~call.pending
        /\ call.status = "closed" \/ call.errored
        /\ ~call.timeout
        /\ Len(call.returned) + 1 < MaxCalls
  /\ call' = TCheckSpawned(IF call.fn = NONE THEN <<>>
                           ELSE Append(call.returned, call.resolves[1]))
  /\ UNCHANGED <<poll, tether, auto>>

\* gphoto2 --summary prints on stdout
TCheckStdout ==
  /\ call.fn = "checkCameraAvailable"
  /\ call.status = "running" /\ ~call.errored
  /\ call' = [call EXCEPT !.output = TRUE]
  /\ UNCHANGED <<poll, tether, auto>>

\* the process ends: exit code 0, another code, or null when a signal ended it
TCheckClose ==
  /\ call.fn = "checkCameraAvailable"
  /\ call.status = "running"
  /\ \E code \in {"0", "1", "null"} :
       /\ code = "0" => ~call.killed /\ ~call.errored
       /\ call' = TCheckOnClose(call, code)
  /\ UNCHANGED <<poll, tether, auto>>

\* the process could not be spawned
TCheckError ==
  /\ call.fn = "checkCameraAvailable"
  /\ call.status = "running" /\ ~call.errored /\ ~call.output /\ ~call.killed
  /\ call' = TCheckOnError(call)
  /\ UNCHANGED <<poll, tether, auto>>

TCheckTimeoutFire ==
  /\ call.fn = "checkCameraAvailable"
  /\ call.timeout
  /\ call' = TCheckOnTimeout(call)
  /\ UNCHANGED <<poll, tether, auto>>

NextPresenceCheck ==
  \/ TCheckCall
  \/ TCheckStdout
  \/ TCheckClose
  \/ TCheckError
  \/ TCheckTimeoutFire

\* the numeric prefixes of the '<number>CANON' folders a camera may hold,
\* each a sequence of decimal digits
FolderPrefixes ==
  { <<1, 0, 0>>, <<1, 0, 3>>, <<8, 7>>, <<9>>, <<0, 8, 7>>, <<9, 9, 9>> }

MaxFolders == 3

\* what gphoto2 --list-folders prints for DCIM: up to MaxFolders folders,
\* in any order
FolderListings(n) ==
  {l \in UNION {[1..k -> FolderPrefixes] : k \in 0..n} :
     \A i, j \in 1..Len(l) : l[i] = l[j] => i = j}

\* parseInt(match[3], 10)
RECURSIVE ParseInt10(_)
ParseInt10(digits) ==
  IF digits = <<>>
  THEN 0
  ELSE 10 * ParseInt10(SubSeq(digits, 1, Len(digits) - 1)) + digits[Len(digits)]

\* the order of two strings of digits as JavaScript compares strings
RECURSIVE StringGreater(_, _)
StringGreater(a, b) ==
  IF a = <<>> THEN FALSE
  ELSE IF b = <<>> THEN TRUE
  ELSE IF a[1] # b[1] THEN a[1] > b[1]
  ELSE StringGreater(Tail(a), Tail(b))

\* a comparator that orders the folders by their names
QFolderBefore_AsStrings(a, b) == StringGreater(a, b)

\* folders.sort((a, b) => b.number - a.number): a is placed before b
QFolderBefore(a, b) == ParseInt10(b) - ParseInt10(a) < 0

\* findCanonFolder once the listing of DCIM is there: folders[0] after the
\* (stable) sort, the empty text for null
QFindCanonFolder(listing) ==
  IF Len(listing) = 0
  THEN <<>>
  ELSE LET first == CHOOSE i \in 1..Len(listing) :
                      /\ \A j \in 1..Len(listing) : ~QFolderBefore(listing[j], listing[i])
                      /\ \A j \in 1..(i - 1) : QFolderBefore(listing[i], listing[j])
       IN listing[first]

QCallFindCanonFolder ==
  /\ \E listing \in FolderListings(MaxFolders) :
       call' = [fn |-> "findCanonFolder", listing |-> listing,
                result |-> QFindCanonFolder(listing)]
  /\ UNCHANGED <<poll, tether, auto>>

NextDiscovery == QCallFindCanonFolder

(***************************************************************************)
(* Specifications                                                          *)
(***************************************************************************)
Init == poll = QInitial /\ tether = TInitial /\ auto = AInitial /\ call = NoCall

SpecPoll == Init /\ [][NextPoll]_vars

\* the polling service when the caller starts a further session after
\* stopping one
NextSessions ==
  \/ QStartSession
  \/ QStartNextSession
  \/ QStopSession
  \/ QCapture
  \/ QMkdirDone
  \/ QMonitorCheckDone
  \/ QMonitorDiscoverDone
  \/ QReconnectFire
  \/ QPollFire
  \/ QPollDiscoverDone
  \/ QPollListDone
  \/ QPollErrCheckDone
  \/ QDownloadDone

SpecSessions == Init /\ [][NextSessions]_vars

\* the event loop runs every callback that is due; API calls and the
\* photographer are not obliged to happen
SpecPollFair ==
  /\ SpecPoll
  /\ WF_vars(QMkdirDone)
  /\ WF_vars(QMonitorCheckDone)
  /\ WF_vars(QMonitorDiscoverDone)
  /\ WF_vars(QReconnectFire)
  /\ WF_vars(QPollFire)
  /\ WF_vars(QPollDiscoverDone)
  /\ WF_vars(QPollListDone)
  /\ WF_vars(QPollErrCheckDone)
  /\ WF_vars(QDownloadDone)

SpecTether == Init /\ [][NextTether]_vars

\* due timers fire and presence checks settle (their own 5 s timeout sees to
\* that); a subprocess is not obliged to exit, nor the server to call stop()
SpecTetherFair ==
  /\ SpecTether
  /\ WF_vars(TMkdirDone)
  /\ WF_vars(TCheckDone)
  /\ WF_vars(TReconnectFire)
  /\ WF_vars(TStopTimeoutFire)

\* the capture path of the tethered service: one listener is started and
\* prints capture lines while the server pauses and resumes the service
NextCapture ==
  \/ TStart
  \/ TMkdirDone
  \/ TCheckDone
  \/ TCaptureLine
  \/ TAccessDone
  \/ TCallPause
  \/ TCallResume

SpecCapture == Init /\ [][NextCapture]_vars

\* the capture path for every kind of 'Saving file as' line
NextCaptureLines ==
  \/ TStart
  \/ TMkdirDone
  \/ TCheckDone
  \/ TCaptureLine
  \/ TCaptureLineWithTail
  \/ TAccessDone
  \/ TCallPause
  \/ TCallResume

SpecCaptureLines == Init /\ [][NextCaptureLines]_vars

\* access() always settles and the 100 ms delay always ends: every
\* waitForFileAndNotify call in flight is resumed
SpecCaptureFair ==
  /\ SpecCapture
  /\ \A id \in 1..MaxLines :
       WF_vars(TAccessDone /\ \E w \in tether.waits : w.id = id /\ w \notin tether'.waits)

\* either service, run on its own
NextCameras ==
  \/ tether = TInitial /\ NextPoll
  \/ poll = QInitial /\ NextTether

SpecCameras == Init /\ [][NextCameras]_vars

SpecAuto == Init /\ [][NextAuto]_vars

\* the auto-detect service when a presence check can outlast the interval
NextAutoOverlap ==
  \/ AStart
  \/ AStartMkdirDone
  \/ AIntervalFire
  \/ AIntervalOverlap
  \/ ACheckConnectedDone
  \/ ADriftDone
  \/ ACountDone
  \/ AInfoDone
  \/ AExistsDone
  \/ ADownloadLine
  \/ ADownloadClose
  \/ AResetRequest
  \/ AResetReaddirDone
  \/ AResetUnlinkDone
  \/ APlug
  \/ AUnplug
  \/ ACameraClock
  \/ AShoot

SpecAutoOverlap == Init /\ [][NextAutoOverlap]_vars

SpecSetState == Init /\ [][NextSetState]_vars

SpecFilenames == Init /\ [][NextFilenames]_vars

\* stderr chunks of the listener, as sequences of text fragments
StderrChunks ==
  { <<"ERROR", "No space left on device">>,
    <<"NO SPACE LEFT">>,
    <<"write failed: ", "no space left">>,
    <<"WARNING", "battery low">>,
    <<"ERROR", "I/O problem">>,
    <<"debug">> }

\* String.prototype.toLowerCase on a fragment
ToLowerCase(frag) ==
  CASE frag = "No space left on device" -> "no space left on device"
    [] frag = "NO SPACE LEFT" -> "no space left"
    [] frag = "ERROR" -> "error"
    [] frag = "WARNING" -> "warning"
    [] frag = "I/O problem" -> "i/o problem"
    [] OTHER -> frag

\* frag.includes('no space left')
IncludesNoSpaceLeft(frag) == frag \in {"no space left", "no space left on device"}

\* a stderr handler that treats the message as a connection error
TOnStderr_TearsDown(s, chunk) ==
  IF \E i \in 1..Len(chunk) : IncludesNoSpaceLeft(ToLowerCase(chunk[i]))
  THEN TScheduleReconnect(TSetConnectionState(
         TEmit([s EXCEPT !.monitorProcess = NULL], ErrorEvent("SD card full")), ERROR))
  ELSE s

\* monitorProcess.stderr.on('data')
TOnStderr(s, chunk) ==
  IF \E i \in 1..Len(chunk) : IncludesNoSpaceLeft(ToLowerCase(chunk[i]))
  THEN TEmit(s, ErrorEvent("SD card full"))
  ELSE s

\* a listener subprocess whose stderr is still open writes a chunk
TListenerStderr ==
  /\ \E p \in 1..Len(tether.procs), chunk \in StderrChunks :
       /\ tether.procs[p].status \in {"running", "exited"}
       /\ tether' = TOnStderr(TBegin(tether), chunk)
  /\ UNCHANGED <<poll, auto, call>>

NextStderr ==
  \/ TStart
  \/ TStop
  \/ TMkdirDone
  \/ TCheckDone
  \/ TReconnectFire
  \/ TListenerExit
  \/ TListenerClose
  \/ TListenerError
  \/ TStopTimeoutFire
  \/ TListenerStderr

SpecStderr == Init /\ [][NextStderr]_vars

\* the tethered service while the server pauses and resumes it at any time
NextPause ==
  \/ TStart
  \/ TStop
  \/ TMkdirDone
  \/ TCheckDone
  \/ TReconnectFire
  \/ TListenerExit
  \/ TListenerClose
  \/ TListenerError
  \/ TStopTimeoutFire
  \/ TCallPause
  \/ TCallResume

SpecPause == Init /\ [][NextPause]_vars

\* the connected clients that may send 'client:reset-session'
Clients == {"c1", "c2"}

\* where the reset handler of each client stands: "idle" (not running),
\* "readdir" or "unlink" (suspended in that await)
ResetPc == IF call.fn = "reset" THEN call.pc ELSE [c \in Clients |-> "idle"]

\* the 'client:reset-session' handler of server.ts up to its await readdir
SResetRequest ==
  /\ call.fn \in {NONE, "reset"}
  /\ \E c \in Clients :
       /\ ResetPc[c] = "idle"
       /\ call' = [fn |-> "reset", pc |-> [ResetPc EXCEPT ![c] = "readdir"]]
  /\ tether' = TPause([TBegin(tether) EXCEPT !.inPause = TRUE])
  /\ UNCHANGED <<poll, auto>>

\* readdir settles: the handler goes on to the unlinks, or to its catch block
SResetReaddirDone ==
  /\ call.fn = "reset"
  /\ \E c \in Clients, ok \in BOOLEAN :
       /\ call.pc[c] = "readdir"
       /\ IF ok
          THEN /\ call' = [call EXCEPT !.pc[c] = "unlink"]
               /\ tether' = TBegin(tether)
          ELSE /\ call' = [call EXCEPT !.pc[c] = "idle"]
               /\ tether' = TResume([TBegin(tether) EXCEPT !.inPause = FALSE])
  /\ UNCHANGED <<poll, auto>>

\* Promise.all of the unlinks settles: resume() on success and in the catch
\* block
SResetUnlinkDone ==
  /\ call.fn = "reset"
  /\ \E c \in Clients :
       /\ call.pc[c] = "unlink"
       /\ call' = [call EXCEPT !.pc[c] = "idle"]
  /\ tether' = TResume([TBegin(tether) EXCEPT !.inPause = FALSE])
  /\ UNCHANGED <<poll, auto>>

\* captures of the tethered service while clients reset the session
NextReset ==
  \/ TStart
  \/ TMkdirDone
  \/ TCheckDone
  \/ TCaptureLine
  \/ TAccessDone
  \/ SResetRequest
  \/ SResetReaddirDone
  \/ SResetUnlinkDone

SpecReset == Init /\ [][NextReset]_vars

\* WhatsAppService (src/services/whatsapp.ts). sockets counts the
\* makeWASocket calls, whose 'connection.update' handlers stay attached;
\* connecting counts the connectToWhatsApp calls suspended in their awaits,
\* timers the pending setTimeout(() => this.connectToWhatsApp()) callbacks;
\* stopped records that stop() was called
MaxSockets == 2
WMaxQRAttempts == 5

WInitial ==
  [fn |-> "whatsapp", sock |-> NULL, isConnected |-> FALSE, shouldReconnect |-> TRUE,
   qrAttempts |-> 0, sockets |-> 0, connecting |-> 0, timers |-> 0, stopped |-> FALSE]

\* connectToWhatsApp up to its first await
WConnectToWhatsApp(s) ==
  IF ~s.shouldReconnect THEN s ELSE [s EXCEPT !.connecting = @ + 1]

\* the 'connection.update' handler for an update that carries a QR code, or
\* connection 'close' (with the loggedOut status code or another one) or 'open'
\* (the handler's await rm(authDir) on loggedOut is taken in the same step)
WOnConnectionUpdate(s, update) ==
  CASE update = "qr" ->
         IF s.qrAttempts + 1 >= WMaxQRAttempts
         THEN [s EXCEPT !.qrAttempts = 0, !.timers = @ + 1]
         ELSE [s EXCEPT !.qrAttempts = @ + 1]
    [] update = "close-loggedOut" ->
         [s EXCEPT !.isConnected = FALSE, !.shouldReconnect = TRUE, !.timers = @ + 1]
    [] update = "close" ->
         IF s.shouldReconnect
         THEN [s EXCEPT !.isConnected = FALSE, !.timers = @ + 1]
         ELSE [s EXCEPT !.isConnected = FALSE]
    [] update = "open" ->
         [s EXCEPT !.isConnected = TRUE, !.qrAttempts = 0]

WStart ==
  /\ call.fn = NONE
  /\ call' = WConnectToWhatsApp(WInitial)
  /\ UNCHANGED <<poll, tether, auto>>

\* the awaits of connectToWhatsApp settle: the socket is made, or the catch
\* block schedules a retry
WConnectResume ==
  /\ call.fn = "whatsapp"
  /\ call.connecting > 0
  /\ \E ok \in BOOLEAN :
       IF ok
       THEN /\ call.sockets < MaxSockets
            /\ call' = [call EXCEPT !.connecting = @ - 1, !.sockets = @ + 1,
                                    !.sock = call.sockets + 1]
       ELSE /\ call.timers < MaxSockets
            /\ call' = IF call.shouldReconnect
                       THEN [call EXCEPT !.connecting = @ - 1, !.timers = @ + 1]
                       ELSE [call EXCEPT !.connecting = @ - 1]
  /\ UNCHANGED <<poll, tether, auto>>

\* a socket made earlier emits 'connection.update'
WConnectionUpdate ==
  /\ call.fn = "whatsapp"
  /\ call.sockets > 0
  /\ call.timers < MaxSockets
  /\ \E update \in {"qr", "close-loggedOut", "close", "open"} :
       call' = WOnConnectionUpdate(call, update)
  /\ UNCHANGED <<poll, tether, auto>>

\* a scheduled reconnect timeout fires
WTimerFire ==
  /\ call.fn = "whatsapp"
  /\ call.timers > 0
  /\ call.connecting < MaxSockets
  /\ call' = WConnectToWhatsApp([call EXCEPT !.timers = @ - 1])
  /\ UNCHANGED <<poll, tether, auto>>

WStop ==
  /\ call.fn = "whatsapp"
  /\ call' = [call EXCEPT !.shouldReconnect = FALSE, !.sock = NULL,
                          !.isConnected = FALSE, !.stopped = TRUE]
  /\ UNCHANGED <<poll, tether, auto>>

NextWhatsApp ==
  \/ WStart
  \/ WConnectResume
  \/ WConnectionUpdate
  \/ WTimerFire
  \/ WStop

SpecWhatsApp == Init /\ [][NextWhatsApp]_vars

\* the timer of a check fires unless it was cleared
SpecPresenceCheck ==
  /\ Init /\ [][NextPresenceCheck]_vars
  /\ WF_vars(TCheckTimeoutFire)

SpecDiscovery == Init /\ [][NextDiscovery]_vars

(***************************************************************************)
(* Claims                                                                  *)
(***************************************************************************)

\* C1: inside one session of the polling service, downloadFile is invoked at
\* most once for every device file identifier and at most one
\* 'photo-captured' event is published for it, for every interleaving of
\* poll ticks and queue draining.
C1_AtMostOnceDelivery ==
  \A f \in Files : poll.downloadCalls[f] <= 1 /\ poll.photoEvents[f] <= 1

\* C2: in the polling service, once handleCameraError has found the device
\* gone (DISCONNECTED, scheduleReconnect called) and the session is not
\* stopped, the reconnect timer eventually fires and runs startCameraMonitor.
C2_ReconnectAfterDeviceGone == poll.gone ~> ~poll.gone

\* C3: in the tethered service, after start() and before stop(), whenever
\* the state is DISCONNECTED or ERROR a reconnect timer is pending or a
\* presence check is in flight, and a presence check eventually runs.
C3_Recoverable ==
  /\ tether.startPc = "running"
  /\ tether.stopPc = "idle"
  /\ tether.connectionState \in {DISCONNECTED, ERROR}

C3_NoTerminalState ==
  /\ [](C3_Recoverable => (tether.pendingReconnect # {} \/ tether.checks > 0))
  /\ [](C3_Recoverable => <>(tether.checks > 0 \/ tether.stopPc # "idle"))

C3_Witness ==
  /\ C3_Recoverable
  /\ tether.connectionState = ERROR
  /\ tether.pendingReconnect # {}
  /\ tether.checks = 0

\* the 'close' handler of listener p runs in this step
TCloseHandlerRuns(p) ==
  /\ \/ tether.procs[p].status = "exited"
     \/ tether.procs[p].status = "running" /\ tether.procs[p].errored
  /\ tether.procs[p].listeners
  /\ tether' = TOnClose([TBegin(tether) EXCEPT !.procs[p].status = "closed"])
  /\ UNCHANGED <<poll, auto, call>>

\* what a close during a session must do: CONNECTED becomes DISCONNECTED with
\* one status event, and exactly one reconnect timer is pending afterwards
C4_CrashMidSession ==
  /\ tether.connectionState = CONNECTED =>
       /\ tether'.connectionState = DISCONNECTED
       /\ tether'.out = <<StatusEvent(DISCONNECTED)>>
  /\ Cardinality(tether'.pendingReconnect) = 1
  /\ tether'.reconnectTimer \in tether'.pendingReconnect

\* the fields of the service object
TServiceFields(s) ==
  <<s.monitorProcess, s.reconnectTimer, s.killTimer, s.connectionState,
    s.isShuttingDown, s.isPaused, s.isChecking>>

\* C4 as stated: a close while isShuttingDown is false takes CONNECTED to
\* DISCONNECTED, publishes a status event and arms exactly one reconnect
\* timer; a close while isShuttingDown is true arms no timer and changes no
\* state.
C4_CloseHandler_AsStated ==
  [][\A p \in 1..Len(tether.procs) :
       TCloseHandlerRuns(p) =>
         IF ~tether.isShuttingDown
         THEN C4_CrashMidSession
         ELSE /\ tether'.pendingReconnect = tether.pendingReconnect
              /\ tether'.out = <<>>
              /\ TServiceFields(tether') = TServiceFields(tether)]_vars

\* C4 as amended: a close while isShuttingDown is true arms no timer,
\* publishes nothing and changes no field except monitorProcess, which it
\* clears.
C4_CloseHandler ==
  [][\A p \in 1..Len(tether.procs) :
       TCloseHandlerRuns(p) =>
         IF ~tether.isShuttingDown
         THEN C4_CrashMidSession
         ELSE /\ tether'.pendingReconnect = tether.pendingReconnect
              /\ tether'.out = <<>>
              /\ tether'.monitorProcess = NULL
              /\ TServiceFields([tether' EXCEPT !.monitorProcess = tether.monitorProcess])
                   = TServiceFields(tether)]_vars

C4_Witness ==
  /\ \E p \in 1..Len(tether.procs) :
       tether.procs[p].status = "closed" /\ tether.procs[p].listeners
  /\ ~tether.isShuttingDown
  /\ tether.connectionState = DISCONNECTED
  /\ tether.out = <<StatusEvent(DISCONNECTED)>>
  /\ Cardinality(tether.pendingReconnect) = 1

\* C5: in both services at most one reconnect timer is pending, and it is
\* the one the reconnectTimer field refers to (the most recently scheduled).
C5_ReconnectTimerSingularity ==
  /\ Cardinality(tether.pendingReconnect) <= 1
  /\ tether.pendingReconnect \subseteq {tether.reconnectTimer}
  /\ Cardinality(poll.pendingReconnect) <= 1
  /\ poll.pendingReconnect \subseteq {poll.reconnectTimer}

\* scheduleReconnect ran while a reconnect timer was pending: the step of a
\* presence check that was skipped because another one was in flight
C5_Witness ==
  /\ tether.skipped
  /\ tether.checks = 1
  /\ Cardinality(tether.pendingReconnect) = 1

NoStatusEvent(out) == \A i \in 1..Len(out) : out[i].type # "status"

\* C7: once stop() has returned the state stays DISCONNECTED and no further
\* status event is published.
C7_ShutdownIsFinal ==
  [][tether.stopPc = "done" =>
       /\ tether'.connectionState = DISCONNECTED
       /\ NoStatusEvent(tether'.out)]_vars

\* C8: once stop() has set isShuttingDown no reconnect timer is armed and no
\* listener subprocess is spawned.
C8_NoNewWorkAfterShutdown ==
  [][tether.isShuttingDown =>
       /\ tether'.pendingReconnect \subseteq tether.pendingReconnect
       /\ Len(tether'.procs) = Len(tether.procs)]_vars

\* C9: stop() eventually returns control to its caller.
C9_StopReturns == (tether.stopPc = "waiting") ~> (tether.stopPc = "done")


\* the capture line arriving in this step names a .jpg file and arrives
\* outside a pause
TUnpausedJpgLine ==
  /\ ~tether.inPause
  /\ \E line \in CaptureLines :
       /\ Len(line) > 1
       /\ line[Len(line)] \in JpgTokens
       /\ tether' = TParsePhotoEvent([TBegin(tether) EXCEPT !.lines = @ + 1], tether.lines + 1, line)
  /\ tether.lines < MaxLines
  /\ UNCHANGED <<poll, auto, call>>

\* C10: a capture line that arrives between pause() and resume() never
\* produces a photo event and is not kept for later; a .jpg capture line
\* that arrives outside a pause starts waitForFileAndNotify, which publishes
\* its photo event.
C10_PauseSuppressesEmission ==
  /\ [](tether.pausedLines \cap (tether.emittedLines \cup {w.id : w \in tether.waits}) = {})
  /\ [][TUnpausedJpgLine
          => \E w \in tether'.waits : w.id = tether'.lines /\ w.tries = 0]_vars

\* a line was discarded during a pause and a later one, after resume(), was
\* published
C10_Witness ==
  /\ ~tether.inPause
  /\ 1 \in tether.pausedLines
  /\ 2 \in tether.emittedLines
  /\ Len(tether.out) = 1
  /\ tether.out[1].type = "photo"
  /\ tether.out[1].file = 2


C12_NoDuplicateEnqueue ==
  /\ \A i, j \in 1..Len(poll.downloadQueue) :
       poll.downloadQueue[i] = poll.downloadQueue[j] => i = j
  /\ SeqToSet(poll.downloadQueue) \cap poll.downloadedFiles = {}
  /\ Len(poll.downloadQueue) <= Cardinality(poll.cameraFiles \ poll.downloadedFiles)

\* C13 as stated: every run of N >= 1 consecutive setConnectionState calls
\* with the same value publishes exactly one status event, by its first
\* call.
C13_OneEventPerRun_AsStated ==
  call.fn = "setConnectionState" => (call.first = 1 /\ call.later = 0)

\* C13: setConnectionState publishes a status event only when the new state
\* differs from the current one; a run of N >= 1 consecutive calls with the
\* same value publishes one status event, by its first call, when the state
\* before the run differs from the value, and none when it is already that
\* value.
C13_StateAnnouncement ==
  call.fn = "setConnectionState" =>
    /\ call.first = (IF call.before # call.value THEN 1 ELSE 0)
    /\ call.later = 0
    /\ (call.svc = "poll" => poll.connectionState = call.value)
    /\ (call.svc = "tether" => tether.connectionState = call.value)

\* three consecutive calls with a value that differed from the state
C13_Witness ==
  /\ call.fn = "setConnectionState"
  /\ call.run = MaxCalls
  /\ call.before # call.value
  /\ call.first = 1
  /\ call.later = 0

\* a presence check of the tethered-event service settles in this step and
\* startCameraMonitor goes on with its result
TPresenceCheckSettles(cameraAvailable) ==
  /\ tether.checks > 0
  /\ tether' = TMonitorChecked([TBegin(tether) EXCEPT !.checks = @ - 1,
                                                     !.isChecking = FALSE],
                               cameraAvailable)
  /\ UNCHANGED <<poll, auto, call>>

StatusEventsOf(out, state) ==
  Cardinality({i \in 1..Len(out) : out[i] = StatusEvent(state)})

\* C14: in the tethered-event service a failed presence check in
\* DISCONNECTED leaves the state DISCONNECTED, publishes no status event and
\* leaves exactly one reconnect timer pending, armed with the fixed 3000 ms
\* delay; a successful presence check in DISCONNECTED publishes exactly
\* CONNECTING then CONNECTED, and every successful attempt publishes exactly
\* one CONNECTING.
C14_AbsentThenAppears ==
  [][ /\ (TPresenceCheckSettles(FALSE) /\ tether.connectionState = DISCONNECTED)
          => /\ tether'.connectionState = DISCONNECTED
             /\ NoStatusEvent(tether'.out)
             /\ tether'.pendingReconnect = {tether'.reconnectTimer}
             /\ tether'.reconnectTimer # NULL
             /\ tether'.reconnectDelay = 3000
      /\ TPresenceCheckSettles(TRUE)
          => /\ StatusEventsOf(tether'.out, CONNECTING) = 1
             /\ tether'.connectionState = CONNECTED
             /\ tether.connectionState = DISCONNECTED
                  => tether'.out = <<StatusEvent(CONNECTING), StatusEvent(CONNECTED)>>
    ]_vars

\* the camera was absent for more than one presence check and the first
\* successful one has just connected
C14_Witness ==
  /\ tether.misses = 2
  /\ Len(tether.procs) = 1
  /\ tether.connectionState = CONNECTED
  /\ tether.pendingReconnect = {}
  /\ tether.out = <<StatusEvent(CONNECTING), StatusEvent(CONNECTED)>>

\* the states of the status events published in one step, in order
StatesPublished(out) ==
  LET idx == {i \in 1..Len(out) : out[i].type = "status"}
  IN [k \in 1..Cardinality(idx) |->
        out[CHOOSE i \in idx : Cardinality({j \in idx : j <= i}) = k].state]

\* the values connectionState takes during the step, the old one first
TStateTrace == <<tether.connectionState>> \o StatesPublished(tether'.out)

AllowedTransition(from, to) ==
  <<from, to>> \in { <<DISCONNECTED, CONNECTING>>, <<ERROR, CONNECTING>>,
                     <<CONNECTING, CONNECTED>>, <<CONNECTED, DISCONNECTED>>,
                     <<CONNECTED, ERROR>> }

\* C15: the tethered-event service starts in DISCONNECTED and every change
\* of connectionState is DISCONNECTED->CONNECTING, ERROR->CONNECTING,
\* CONNECTING->CONNECTED, CONNECTED->DISCONNECTED, CONNECTED->ERROR, or the
\* transition to DISCONNECTED made by stop().
C15_AllowedTransitions ==
  /\ tether.connectionState = DISCONNECTED
  /\ [][ \/ tether.stopPc # "done" /\ tether'.stopPc = "done"
         \/ /\ tether'.connectionState = TStateTrace[Len(TStateTrace)]
            /\ \A i \in 1..(Len(TStateTrace) - 1) :
                 \/ TStateTrace[i] = TStateTrace[i + 1]
                 \/ AllowedTransition(TStateTrace[i], TStateTrace[i + 1])
       ]_vars

\* the last path segment of a text: what follows its last "/"
LastSegment(text) ==
  LET k == CHOOSE k \in 0..Len(text) :
             /\ k = 0 \/ text[k] = "/"
             /\ \A j \in (k + 1)..Len(text) : text[j] # "/"
  IN SubSeq(text, k + 1, Len(text))

\* access(fullPath) succeeds in this step for the waitForFileAndNotify call w
TFileAccessible(w) ==
  /\ tether' = TWaitForFileAndNotify(TBegin(tether), w, TRUE)
  /\ UNCHANGED <<poll, auto, call>>

\* C16: for a capture line 'Saving file as <dir>/<name>.jpg' received while
\* not paused, the step in which the file is found accessible (within the
\* 10 checks) publishes exactly one photo event, with filename the last
\* path segment of the line and path '/photos/' followed by that filename,
\* and no event was or will be published for that line otherwise.
C16_HappyPath ==
  [][ \A w \in tether.waits :
        TFileAccessible(w) =>
          /\ w.tries < 10
          /\ tether'.out =
               << [type |-> "photo", connected |-> FALSE, state |-> NONE, file |-> w.id,
                   sid |-> NULL, message |-> NONE,
                   filename |-> LastSegment(w.line),
                   path |-> <<"/", "photos", "/">> \o LastSegment(w.line)] >>
          /\ w.id \notin tether.emittedLines
          /\ \A v \in tether'.waits : v.id # w.id
    ]_vars

\* the example of the specification: 'Saving file as session/photo_120000.jpg'
\* has produced {filename: 'photo_120000.jpg', path: '/photos/photo_120000.jpg'}
C16_Witness ==
  /\ ~tether.inPause
  /\ tether.emittedLines # {}
  /\ Len(tether.out) = 1
  /\ tether.out[1].type = "photo"
  /\ tether.out[1].filename = <<"photo_120000", ".jpg">>
  /\ tether.out[1].path = <<"/", "photos", "/", "photo_120000", ".jpg">>

\* C17: for every non-empty listing of '<number>CANON' folders findCanonFolder
\* returns a listed folder whose prefix, read as a decimal integer, is the
\* highest of the listing.
C17_FolderSelection ==
  (call.fn = "findCanonFolder" /\ call.listing # <<>>) =>
    /\ call.result \in SeqToSet(call.listing)
    /\ \A f \in SeqToSet(call.listing) : ParseInt10(f) <= ParseInt10(call.result)

\* the example of the specification: 100CANON, 103CANON, 87CANON gives 103CANON
C17_Witness ==
  /\ call.fn = "findCanonFolder"
  /\ call.listing = << <<1, 0, 0>>, <<1, 0, 3>>, <<8, 7>> >>
  /\ call.result = <<1, 0, 3>>

\* startCameraMonitor of the polling service resumes in this step with a
\* discovery whose steps ended as r
QDiscoverySettles(r) ==
  /\ poll.tasks["monDiscover"] > 0
  /\ poll' = QMonitorDiscovered(QResume(poll, "monDiscover"), QDiscoverCameraPath(r))
  /\ UNCHANGED <<tether, auto, call>>

\* startCameraMonitor of the polling service resumes in this step with a
\* successful presence check
QPresenceConfirmed ==
  /\ poll.tasks["monCheck"] > 0
  /\ poll' = (IF poll.cameraFolderPath = NULL
              THEN QSuspend(QResume(poll, "monCheck"), "monDiscover")
              ELSE QMonitorConnected(QResume(poll, "monCheck")))
  /\ UNCHANGED <<tether, auto, call>>

\* C18: when one of the three discovery steps fails (spawn error, non-zero
\* exit code, no pattern match), discoverCameraPath resolves to null;
\* startCameraMonitor then sets ERROR, leaves exactly one reconnect timer
\* pending, leaves cameraFolderPath null and arms no poll timer; and the
\* next attempt whose presence check succeeds runs discovery again.
C18_DiscoveryFailureRecoverable ==
  [][ /\ \A r \in [1..3 -> StepResults] :
           ((\E k \in 1..3 : r[k] # "ok") /\ QDiscoverySettles(r)) =>
             /\ QDiscoverCameraPath(r) = NULL
             /\ poll'.connectionState = ERROR
             /\ poll'.reconnectTimer # NULL
             /\ poll'.pendingReconnect = {poll'.reconnectTimer}
             /\ poll'.cameraFolderPath = NULL
             /\ poll'.pollTimer = NULL
             /\ poll'.pendingPoll = {}
      /\ (QPresenceConfirmed /\ poll.discoveryFailed /\ poll.cameraFolderPath = NULL)
           => poll'.tasks["monDiscover"] = poll.tasks["monDiscover"] + 1
    ]_vars

\* discovery has failed once and is running again after the reconnect timer
\* fired
C18_Witness ==
  /\ poll.discoveryFailed
  /\ poll.reconnectAttempts > 0
  /\ poll.cameraFolderPath = NULL
  /\ poll.connectionState = CONNECTING
  /\ poll.tasks["monDiscover"] > 0

\* transfers as the settled downloadFile of f leaves them
QSettled(f) == [poll.transfers EXCEPT ![f] = @ - 1]

\* C19: a step in which the transfer of an identifier fails puts that
\* identifier in downloadedFiles, appends nothing to the queue (the identifier
\* is not put back), hands the head of the remaining queue to downloadFile
\* next, and leaves connectionState, both timers, their pending callbacks and
\* the reconnect counter as they were.
C19_TransferFailureLocal ==
  [][\A f \in poll'.failed :
       poll' # poll =>
         /\ f \in poll'.downloadedFiles
         /\ poll'.connectionState = poll.connectionState
         /\ poll'.pollTimer = poll.pollTimer
         /\ poll'.reconnectTimer = poll.reconnectTimer
         /\ poll'.pendingPoll = poll.pendingPoll
         /\ poll'.pendingReconnect = poll.pendingReconnect
         /\ poll'.reconnectAttempts = poll.reconnectAttempts
         /\ poll'.out = <<>>
         /\ IF poll.downloadQueue = <<>>
            THEN /\ poll'.downloadQueue = <<>>
                 /\ poll'.transfers = QSettled(f)
                 /\ ~poll'.isProcessingQueue
            ELSE /\ poll'.downloadQueue = Tail(poll.downloadQueue)
                 /\ poll'.transfers =
                      [QSettled(f) EXCEPT ![Head(poll.downloadQueue)] = @ + 1]]_vars

\* the line of wait w has no waitForFileAndNotify call in flight after the step
TWaitOver(w) == \A v \in tether'.waits : v.id # w.id

\* C20: a waitForFileAndNotify call has at most 10 file checks; a failed check
\* before the tenth publishes nothing and leads to the next check; a
\* successful check publishes one photo event and ends the call; the tenth
\* failed check publishes one error event 'Photo file not ready: <filename>',
\* ends the call and leaves connectionState, the listener subprocesses,
\* monitorProcess and the reconnect timer as they were; no line gets both a
\* photo and an error event, a line that got its event is never waited for
\* again, and every accepted line eventually gets its event.
C20_FileMaterialization ==
  /\ [](\A w \in tether.waits :
          /\ w.tries < 10
          /\ w.id \notin tether.emittedLines \cup tether.timedOutLines)
  /\ [](tether.emittedLines \cap tether.timedOutLines = {})
  /\ [][\A w \in tether.waits :
          w \notin tether'.waits =>
            \/ /\ w.tries < 9
               /\ [w EXCEPT !.tries = @ + 1] \in tether'.waits
               /\ tether'.out = <<>>
               /\ w.id \notin tether'.emittedLines \cup tether'.timedOutLines
            \/ /\ TWaitOver(w)
               /\ Len(tether'.out) = 1
               /\ tether'.out[1].type = "photo"
               /\ tether'.out[1].file = w.id
               /\ w.id \in tether'.emittedLines \ tether'.timedOutLines
            \/ /\ TWaitOver(w)
               /\ w.tries = 9
               /\ tether'.out =
                    << [type |-> "error", connected |-> FALSE, state |-> NONE,
                        file |-> NULL, sid |-> NULL,
                        message |-> "Photo file not ready: ",
                        filename |-> LastSegment(w.line), path |-> <<>>] >>
               /\ w.id \in tether'.timedOutLines \ tether'.emittedLines
               /\ tether'.connectionState = tether.connectionState
               /\ tether'.procs = tether.procs
               /\ tether'.monitorProcess = tether.monitorProcess
               /\ tether'.reconnectTimer = tether.reconnectTimer
               /\ tether'.pendingReconnect = tether.pendingReconnect]_vars
  /\ [][/\ tether.emittedLines \subseteq tether'.emittedLines
        /\ tether.timedOutLines \subseteq tether'.timedOutLines
        /\ \A id \in (tether'.emittedLines \cup tether'.timedOutLines)
                        \ (tether.emittedLines \cup tether.timedOutLines) :
             \E w \in tether.waits : w.id = id]_vars
  /\ \A id \in 1..MaxLines :
       (\E w \in tether.waits : w.id = id)
         ~> (id \in tether.emittedLines \cup tether.timedOutLines)

\* the tenth check of a line has just failed while the listener runs and the
\* service is connected, and another line got its photo event
C20_Witness ==
  /\ tether.connectionState = CONNECTED
  /\ tether.monitorProcess # NULL
  /\ tether.timedOutLines # {}
  /\ tether.emittedLines # {}
  /\ Len(tether.out) = 1
  /\ tether.out[1].type = "error"
  /\ tether.out[1].message = "Photo file not ready: "
  /\ tether.out[1].filename = <<"photo_120001", ".jpeg">>

\* C21: the timer armed by the n-th scheduleReconnect call since the session
\* was started or the state last became CONNECTED has the delay
\* min(5000 * 2^(n-1), 30000) ms, which is at most 30000 ms; the call adds
\* one to reconnectAttempts; reconnectAttempts is 0 whenever the state is
\* CONNECTED.
C21_ExponentialBackoff ==
  /\ [](poll.reconnectDelay # 0 =>
          /\ poll.scheduled >= 1
          /\ poll.reconnectDelay = Min(5000 * (2 ^ (poll.scheduled - 1)), 30000)
          /\ poll.reconnectDelay <= 30000)
  /\ [](poll.connectionState = CONNECTED => poll.reconnectAttempts = 0)
  /\ [][(poll' # poll /\ poll'.reconnectDelay # 0) =>
          poll'.reconnectAttempts = Min(poll.reconnectAttempts + 1, QMaxAttempts)]_vars

\* a poll tick resumes from gphoto2 --list-files with a path-related error
QListPathError ==
  /\ poll.tasks["pollList"] > 0
  /\ poll' = QStartPolling(QHandlePathError(QResume(poll, "pollList")))
  /\ UNCHANGED <<tether, auto, call>>

\* a discoverCameraPath call is started / resolves in the step
QDiscoveryStarts ==
  \E k \in {"monDiscover", "pollDiscover"} : poll'.tasks[k] > poll.tasks[k]

QDiscoveryResolves ==
  \E k \in {"monDiscover", "pollDiscover"} : poll'.tasks[k] < poll.tasks[k]

\* C22: cameraFolderPath becomes non-null only in a step in which a discovery
\* resolves; a discovery is started only while cameraFolderPath is null; a
\* poll that fails with a path-related error sets cameraFolderPath to null,
\* publishes nothing, leaves connectionState and reconnectAttempts unchanged
\* and arms no reconnect timer; gphoto2 --list-files is started only
\* with a non-null cameraFolderPath, by a tick that found the path cached or
\* by the discovery that has just succeeded.
C22_PathInvalidation ==
  /\ [][(poll.cameraFolderPath = NULL /\ poll'.cameraFolderPath # NULL)
          => QDiscoveryResolves]_vars
  /\ [][QDiscoveryStarts => poll.cameraFolderPath = NULL]_vars
  /\ [][QListPathError =>
          /\ poll'.cameraFolderPath = NULL
          /\ poll'.connectionState = poll.connectionState
          /\ poll'.reconnectAttempts = poll.reconnectAttempts
          /\ poll'.reconnectTimer \in {NULL, poll.reconnectTimer}
          /\ poll'.pendingReconnect \subseteq poll.pendingReconnect
          /\ poll'.out = <<>>]_vars
  /\ [][poll'.tasks["pollList"] > poll.tasks["pollList"] =>
          /\ poll'.cameraFolderPath # NULL
          /\ \/ poll.cameraFolderPath # NULL
             \/ poll'.tasks["pollDiscover"] < poll.tasks["pollDiscover"]]_vars

\* after downloads in a connected session the path was invalidated, and the
\* next tick is running discovery
C22_Witness ==
  /\ poll.connectionState = CONNECTED
  /\ poll.cameraFolderPath = NULL
  /\ poll.reconnectTimer = NULL
  /\ poll.tasks["pollDiscover"] > 0
  /\ poll.tasks["pollList"] = 0
  /\ \E f \in Files : poll.photoEvents[f] > 0

\* C23: a step that ends with isPaused set publishes no photo event, whenever
\* the capture line of the event was accepted.
C23_NoEmissionDuringPause ==
  tether.isPaused => \A i \in 1..Len(tether.out) : tether.out[i].type # "photo"

\* C24: in every step of the tethered-event service each status event
\* published carries a state different from the value connectionState had
\* just before it, and connectionState after the step is the state of the
\* last status event (the old value when there is none): a status event is
\* published exactly when the value changes.
C24_StatusMarksChange ==
  [][/\ tether'.connectionState = TStateTrace[Len(TStateTrace)]
     /\ \A i \in 1..(Len(TStateTrace) - 1) : TStateTrace[i] # TStateTrace[i + 1]]_vars

\* C25: an identifier enters downloadedFiles only in a step in which a
\* gphoto2 --get-file transfer of that identifier, started earlier, ends
\* (with a photo event or with a failure).
C25_DownloadedAfterTransfer ==
  [][\A f \in poll'.downloadedFiles \ poll.downloadedFiles :
       /\ poll.transfers[f] > 0
       /\ \/ f \in poll'.failed
          \/ \E i \in 1..Len(poll'.out) :
               poll'.out[i].type = "photo" /\ poll'.out[i].file = f]_vars

\* the gphoto2 --get-file transfers in flight
QTransfersInFlight ==
  LET RECURSIVE Sum(_)
      Sum(S) == IF S = {} THEN 0
                ELSE LET f == CHOOSE f \in S : TRUE
                     IN poll.transfers[f] + Sum(S \ {f})
  IN Sum(Files)

\* the transfer of f ends in the step / a transfer of g is started in it
QTransferEnds(f) ==
  \/ f \in poll'.failed
  \/ \E i \in 1..Len(poll'.out) : poll'.out[i].type = "photo" /\ poll'.out[i].file = f

QTransferStarts(g) ==
  poll'.transfers[g] > poll.transfers[g] - (IF QTransferEnds(g) THEN 1 ELSE 0)

\* C26: at most one gphoto2 --get-file transfer is in flight at any instant,
\* and a transfer that is started while identifiers are queued is the
\* transfer of the identifier at the head of the queue.
C26_SequentialDraining ==
  /\ [](QTransfersInFlight <= 1)
  /\ [][\A g \in Files :
          (QTransferStarts(g) /\ poll.downloadQueue # <<>>)
            => g = Head(poll.downloadQueue)]_vars

\* a poll timer fires: the step of QPollFire
QTickFires ==
  /\ \E id \in poll.pendingPoll :
       poll' = QCheckAndDownloadNewPhotos([QBegin(poll) EXCEPT !.pendingPoll = @ \ {id}])
  /\ UNCHANGED <<tether, auto, call>>

\* the work of an earlier tick is in flight: its discovery, listing or error
\* check, or the draining of the download queue
QTickWorkInFlight ==
  \/ poll.tasks["pollDiscover"] > 0
  \/ poll.tasks["pollList"] > 0
  \/ poll.tasks["pollErrCheck"] > 0
  \/ poll.isProcessingQueue
  \/ QTransfersInFlight > 0

\* C27: a poll tick that fires while the work of an earlier tick is in flight
\* starts no discovery and no gphoto2 --list-files and leaves the download
\* queue as it is.
C27_PollOverlapGuard ==
  [][(QTickFires /\ QTickWorkInFlight) =>
       /\ poll'.tasks["pollList"] = poll.tasks["pollList"]
       /\ poll'.tasks["pollDiscover"] = poll.tasks["pollDiscover"]
       /\ poll'.downloadQueue = poll.downloadQueue]_vars

\* C28: in the auto-detect service handleConnection is entered (CONNECTED is
\* published, the sync starts) only while no sync is in flight, and
\* connectionState does not become DISCONNECTED while a sync is in flight.
C28_SingleSync ==
  /\ [][StatusEventsOf(auto'.out, CONNECTED) > 0 => (~auto.isBusy /\ auto.pc = "idle")]_vars
  /\ [][(auto.isBusy /\ auto.connectionState # DISCONNECTED)
          => auto'.connectionState # DISCONNECTED]_vars

\* listener p, whose handlers are attached, emits 'error'
TListenerErrors(p) ==
  /\ tether.procs[p].status = "running"
  /\ ~tether.procs[p].errored
  /\ tether.procs[p].listeners
  /\ tether' = TOnError([TBegin(tether) EXCEPT !.procs[p].errored = TRUE])
  /\ UNCHANGED <<poll, auto, call>>

\* C29: when a listener subprocess emits 'error' while isShuttingDown is
\* false, the state becomes ERROR, exactly the status event
\* {connected: false, state: ERROR} is published, monitorProcess is cleared
\* and exactly one reconnect timer is pending afterwards; while
\* isShuttingDown is true the state is unchanged, nothing is published and
\* no timer is armed.
C29_SpawnErrorHandling ==
  [][\A p \in 1..Len(tether.procs) :
       TListenerErrors(p) =>
         IF ~tether.isShuttingDown
         THEN /\ tether'.connectionState = ERROR
              /\ tether'.out = << [type |-> "status", connected |-> FALSE, state |-> ERROR,
                                   file |-> NULL, sid |-> NULL, message |-> NONE,
                                   filename |-> <<>>, path |-> <<>>] >>
              /\ tether'.monitorProcess = NULL
              /\ Cardinality(tether'.pendingReconnect) = 1
              /\ tether'.reconnectTimer \in tether'.pendingReconnect
         ELSE /\ tether'.connectionState = tether.connectionState
              /\ tether'.out = <<>>
              /\ tether'.pendingReconnect = tether.pendingReconnect
              /\ tether'.reconnectTimer = tether.reconnectTimer]_vars

\* the listener prints this capture line in the step
TLineArrives(line) ==
  /\ tether.lines < MaxLines
  /\ \E p \in 1..Len(tether.procs) : tether.procs[p].status # "closed"
  /\ tether' = TParsePhotoEvent(
                 [TBegin(tether) EXCEPT
                    !.lines = @ + 1,
                    !.pausedLines = IF tether.inPause THEN @ \cup {tether.lines + 1} ELSE @],
                 tether.lines + 1, line)
  /\ UNCHANGED <<poll, auto, call>>

\* the saved file name of the line ends in .jpg or .jpeg, in any case
EndsInJpg(line) == line[Len(line)] \in {".jpg", ".jpeg", ".JPG", ".JPEG"}

\* C30: a capture line whose file name does not end in .jpg / .jpeg starts no
\* waitForFileAndNotify, publishes nothing and changes neither
\* connectionState, the listener subprocesses nor the timers; every
\* waitForFileAndNotify call in flight is for a line that ends in .jpg /
\* .jpeg, and so is every photo or error event of the capture path.
C30_ExtensionFilter ==
  /\ [](\A w \in tether.waits : EndsInJpg(w.line))
  /\ [][\A line \in CaptureLines \cup CaptureLinesWithTail :
          (TLineArrives(line) /\ ~EndsInJpg(line)) =>
            /\ tether'.waits = tether.waits
            /\ tether'.out = <<>>
            /\ tether'.emittedLines = tether.emittedLines
            /\ tether'.timedOutLines = tether.timedOutLines
            /\ tether'.connectionState = tether.connectionState
            /\ tether'.procs = tether.procs
            /\ tether'.monitorProcess = tether.monitorProcess
            /\ tether'.pendingReconnect = tether.pendingReconnect]_vars

\* C31: within one session two different device identifiers are never
\* downloaded to the same local path.
C31_UniqueLocalPaths ==
  call.fn = "downloadFile" =>
    \A i, j \in 1..Len(call.saved) :
      call.saved[i].file # call.saved[j].file
        => call.saved[i].localPath # call.saved[j].localPath

TCheckInFlight == call.fn = "checkCameraAvailable" /\ call.pending

\* C32: a checkCameraAvailable call that spawned gphoto2 --summary calls
\* resolve() at most once; it resolves true only on 'close' with exit code 0
\* and output received, and false on 'close' with another code or without
\* output, on 'error', and on the 5 s timeout, which kills the process;
\* isChecking is cleared and no timer is left when it has resolved; and it
\* always resolves.
C32_PresenceCheckResolves ==
  /\ [](call.fn = "checkCameraAvailable" =>
          /\ Len(call.resolves) <= 1
          /\ call.pending <=> call.resolves = <<>>
          /\ call.resolves # <<>> =>
               /\ call.resolves[1] <=>
                    (call.cause = "close" /\ call.code = "0" /\ call.output)
               /\ call.cause = "timeout" => call.killed
               /\ ~call.timeout
               /\ ~call.isChecking)
  /\ (TCheckInFlight ~> ~TCheckInFlight)

\* a check has resolved false by its timeout and the killed process has
\* closed afterwards
C32_Witness ==
  /\ call.fn = "checkCameraAvailable"
  /\ call.resolves = <<FALSE>>
  /\ call.cause = "timeout"
  /\ call.status = "closed"
  /\ call.output

\* the stderr chunks that hold 'no space left' in some letter case
NoSpaceChunks ==
  { <<"ERROR", "No space left on device">>,
    <<"NO SPACE LEFT">>,
    <<"write failed: ", "no space left">> }

\* the stderr handler runs for a chunk
TStderrArrives(chunk) ==
  /\ \E p \in 1..Len(tether.procs) : tether.procs[p].status \in {"running", "exited"}
  /\ tether' = TOnStderr(TBegin(tether), chunk)
  /\ UNCHANGED <<poll, auto, call>>

\* C33: a stderr chunk of the listener that holds 'no space left' in any
\* letter case publishes exactly the error event 'SD card full' and leaves
\* the connection state, monitorProcess, the subprocesses and the reconnect
\* timer as they were.
C33_NoSpaceReported ==
  [][\A chunk \in NoSpaceChunks :
       TStderrArrives(chunk) =>
         /\ tether'.out = << [type |-> "error", connected |-> FALSE, state |-> NONE,
                              file |-> NULL, sid |-> NULL, message |-> "SD card full",
                              filename |-> <<>>, path |-> <<>>] >>
         /\ tether'.connectionState = tether.connectionState
         /\ tether'.monitorProcess = tether.monitorProcess
         /\ tether'.procs = tether.procs
         /\ tether'.reconnectTimer = tether.reconnectTimer
         /\ tether'.pendingReconnect = tether.pendingReconnect
         /\ tether'.isShuttingDown = tether.isShuttingDown]_vars

\* 'SD card full' was published while the service is connected and owns a
\* running listener
C33_Witness ==
  /\ tether.out # <<>>
  /\ tether.out[1].type = "error" /\ tether.out[1].message = "SD card full"
  /\ tether.connectionState = CONNECTED
  /\ tether.monitorProcess # NULL
  /\ tether.procs[tether.monitorProcess].status = "running"

\* the server's pause() call runs
TPauseCalled ==
  /\ tether' = TPause([TBegin(tether) EXCEPT !.inPause = TRUE])
  /\ UNCHANGED <<poll, auto, call>>

\* the server's resume() call runs
TResumeCalled ==
  /\ tether' = TResume([TBegin(tether) EXCEPT !.inPause = FALSE])
  /\ UNCHANGED <<poll, auto, call>>

\* C34: pause() sets isPaused and resume() clears it; both leave the
\* connection state, monitorProcess, the subprocesses, the reconnect timer,
\* the kill timer and isShuttingDown as they were and publish no event.
C34_PauseResumeFrame ==
  [][(TPauseCalled \/ TResumeCalled) =>
       /\ tether'.isPaused = TPauseCalled
       /\ tether'.out = <<>>
       /\ tether'.connectionState = tether.connectionState
       /\ tether'.monitorProcess = tether.monitorProcess
       /\ tether'.procs = tether.procs
       /\ tether'.reconnectTimer = tether.reconnectTimer
       /\ tether'.pendingReconnect = tether.pendingReconnect
       /\ tether'.killTimer = tether.killTimer
       /\ tether'.isChecking = tether.isChecking
       /\ tether'.isShuttingDown = tether.isShuttingDown]_vars

\* the service is paused while connected with a running listener
C34_Witness ==
  /\ tether.isPaused
  /\ tether.connectionState = CONNECTED
  /\ tether.monitorProcess # NULL
  /\ tether.procs[tether.monitorProcess].status = "running"

\* stopSession() has returned and startSession() has not been called since
QStopped == poll.sessionsStarted > 0 /\ poll.currentSessionId = NULL

\* C35: from the return of stopSession() to the next startSession(),
\* downloadedFiles and downloadQueue are empty, cameraFolderPath is null,
\* reconnectAttempts is 0, the state is DISCONNECTED and no poll or reconnect
\* timer is pending, whatever operation of the stopped session is still in
\* flight.
C35_SessionTeardown ==
  QStopped =>
    /\ poll.downloadedFiles = {}
    /\ poll.downloadQueue = <<>>
    /\ poll.cameraFolderPath = NULL
    /\ poll.reconnectAttempts = 0
    /\ poll.connectionState = DISCONNECTED
    /\ poll.pollTimer = NULL /\ poll.reconnectTimer = NULL
    /\ poll.pendingPoll = {} /\ poll.pendingReconnect = {}

\* the listener subprocesses that were spawned and are running
TAlive ==
  {p \in 1..Len(tether.procs) :
     tether.procs[p].status = "running" /\ ~tether.procs[p].errored}

\* C36: at most one listener subprocess of the tethered service is alive at
\* any instant.
C36_SingleListener == Cardinality(TAlive) <= 1

\* C37: while the state is CONNECTED and stop() has not been called,
\* monitorProcess is the listener spawned last; and while a spawned listener
\* is alive, none of its 'close' and 'error' events delivered, the state is
\* CONNECTED.
C37_ConnectedOwnsListener ==
  /\ (tether.connectionState = CONNECTED /\ tether.stopPc = "idle")
       => (tether.procs # <<>> /\ tether.monitorProcess = Len(tether.procs))
  /\ (TAlive # {} /\ tether.stopPc = "idle") => tether.connectionState = CONNECTED

\* the clients whose reset handler has called pause() and not yet resume()
SResetting == {c \in Clients : ResetPc[c] \in {"readdir", "unlink"}}

\* C38: while the reset handler of any client is between its pause() and its
\* resume() the camera service is paused, also with two handlers overlapping;
\* and when no handler is running after a reset the service is resumed.
C38_PausedDuringReset ==
  /\ SResetting # {} => tether.isPaused
  /\ (call.fn = "reset" /\ SResetting = {}) => ~tether.isPaused

\* C39: once stop() of the WhatsAppService has been called no socket is made
\* any more, whatever connection update or reconnect timeout is delivered
\* afterwards.
C39_WhatsAppStopFinal ==
  [][(call.fn = "whatsapp" /\ call.stopped) => call'.sockets = call.sockets]_vars

====
